---------------------------- MODULE Spec2Model ----------------------------
(***************************************************************************)
(* State-machine model of libnodegl's text backend (text.c), Text node     *)
(* (node_text.c), TextEffect node (node_texteffect.c) and Path node        *)
(* (node_path.c).                                                          *)
(*                                                                         *)
(* Conventions                                                             *)
(*  - C arrays are functions over 0..n-1 so that indices and pointer       *)
(*    offsets keep the values they have in the source; darrays of structs  *)
(*    that are only pushed and iterated are sequences (1..n).              *)
(*  - float and double values are exact rationals <<n, d>> in lowest terms *)
(*    with d > 0, extended with <<1,0>> (+inf), <<-1,0>> (-inf) and        *)
(*    <<0,0>> (NaN); rounding is not modelled, division by zero and NaN    *)
(*    propagation are.                                                     *)
(*  - strings are sequences of character codes (10 is '\n', 32 is ' ').    *)
(***************************************************************************)
EXTENDS Integers, Sequences, FiniteSets, TLC

VARIABLES
    \* ---- build and context
    have_textlibs,      \* HAVE_TEXTLIBS of the build
    font_atlas,         \* ngl_ctx.font_atlas: texture id, 0 is NULL
    textures,           \* live GPU textures (ids)
    next_texture,       \* allocator of texture ids
    \* ---- struct text (text.h), one instance
    text_ctx,
    call,               \* last backend call: [op, str, ret]
    prev_layout,        \* layout left by the previous successful set_string
    \* ---- Text node (node_text.c), one instance; text_ctx is its s->text_ctx
    priv,               \* struct text_priv
    text_node,          \* the node's state and its last call: [state, op, ret, t]
    rand_state,         \* state of random()
    scratch_live,       \* scratch arrays left allocated by the last layout
    drawn,              \* what the last text_draw() handed to the pipelines
    text_rnodes,        \* ctx->rnode_pos->id of the render paths prepared for the node
    \* ---- Path node (node_path.c), one instance
    path_priv,          \* struct path_priv
    path_node,          \* the node's state and its last call
    \* ---- Noise node (node_noise.c), one instance
    noise_priv,         \* struct noise
    noise_node,         \* the node's state and its last call
    \* ---- root finder (root_finder.c)
    roots_call,         \* the last ngli_root_find5() call: its arguments and results
    \* ---- Skew node (node_skew.c), one instance with its child and its animation
    skew_priv,          \* struct skew_priv
    skew_node,          \* the node's state and its last call
    skew_log,           \* the ngli_node_update() calls the last skew_update() made
    \* ---- PathDraw node (node_pathdraw.c), one instance
    pathdraw_priv,      \* struct pathdraw_priv
    pathdraw_node,      \* the node's state and its last call
    gpu,                \* live GPU objects created by the PathDraw node
    \* ---- timing windows of the text effects (node_text.c), in float arithmetic
    window              \* the element count, overlap and position, and the window computed

backendVars == <<have_textlibs, font_atlas, textures, next_texture, text_ctx, call, prev_layout>>
textVars == <<priv, text_node, rand_state, scratch_live, drawn, text_rnodes>>
pathVars == <<path_priv, path_node>>
noiseVars == <<noise_priv, noise_node>>
rootsVars == <<roots_call>>
skewVars == <<skew_priv, skew_node, skew_log>>
pathdrawVars == <<pathdraw_priv, pathdraw_node, gpu>>
windowVars == <<window>>
otherVars == <<noiseVars, rootsVars, skewVars, pathdrawVars, windowVars>>
vars == <<backendVars, textVars, pathVars, otherVars>>

\* the nodes a specification does not drive are not created
NoiseIdle == noise_priv = <<>> /\ noise_node = <<>>
RootsIdle == roots_call = <<>>
SkewIdle == skew_priv = <<>> /\ skew_node = <<>> /\ skew_log = <<>>
PathDrawIdle == pathdraw_priv = <<>> /\ pathdraw_node = <<>> /\ gpu = <<>>
WindowIdle == window = <<>>
OtherIdle == NoiseIdle /\ RootsIdle /\ SkewIdle /\ PathDrawIdle /\ WindowIdle

-----------------------------------------------------------------------------
(* Return codes (nodegl.h) *)
NGL_OK                    == "0"
NGL_ERROR_BUG             == "NGL_ERROR_BUG"
NGL_ERROR_EXTERNAL        == "NGL_ERROR_EXTERNAL"
NGL_ERROR_INVALID_ARG     == "NGL_ERROR_INVALID_ARG"
NGL_ERROR_INVALID_USAGE   == "NGL_ERROR_INVALID_USAGE"
NGL_ERROR_MEMORY          == "NGL_ERROR_MEMORY"
NGL_ERROR_UNSUPPORTED     == "NGL_ERROR_UNSUPPORTED"

NULL == 0

-----------------------------------------------------------------------------
(* Arithmetic on float values *)

Abs(x) == IF x < 0 THEN -x ELSE x
Sgn(x) == IF x < 0 THEN -1 ELSE IF x > 0 THEN 1 ELSE 0
Max(a, b) == IF a > b THEN a ELSE b
Min(a, b) == IF a < b THEN a ELSE b

RECURSIVE Gcd(_, _)
Gcd(a, b) == IF b = 0 THEN a ELSE Gcd(b, a % b)

\* the float n/d; d = 0 yields +inf, -inf or NaN as IEEE-754 division does
F(n, d) ==
    IF d = 0 THEN <<Sgn(n), 0>>
    ELSE LET g == Gcd(Abs(n), Abs(d))
             s == IF d < 0 THEN -1 ELSE 1
         IN <<(s * n) \div g, (s * d) \div g>>

FI(n)  == <<n, 1>>
FZero  == <<0, 1>>
FOne   == <<1, 1>>
FNaN   == <<0, 0>>
FPInf  == <<1, 0>>
FNInf  == <<-1, 0>>

IsNaN(x)    == x = FNaN
IsInf(x)    == x[2] = 0 /\ x[1] # 0
IsFinite(x) == x[2] # 0

FNeg(x) == <<-x[1], x[2]>>

FAdd(x, y) ==
    IF IsNaN(x) \/ IsNaN(y) THEN FNaN
    ELSE IF IsInf(x) THEN (IF IsInf(y) /\ y # x THEN FNaN ELSE x)
    ELSE IF IsInf(y) THEN y
    ELSE LET g == Gcd(x[2], y[2])
         IN F(x[1] * (y[2] \div g) + y[1] * (x[2] \div g), (x[2] \div g) * y[2])

FSub(x, y) == FAdd(x, FNeg(y))

FMul(x, y) ==
    IF IsNaN(x) \/ IsNaN(y) THEN FNaN
    ELSE IF IsInf(x) \/ IsInf(y)
         THEN (IF x[1] = 0 \/ y[1] = 0 THEN FNaN ELSE <<Sgn(x[1]) * Sgn(y[1]), 0>>)
    ELSE LET g1 == Gcd(Abs(x[1]), y[2])
             g2 == Gcd(Abs(y[1]), x[2])
         IN F((x[1] \div g1) * (y[1] \div g2), (x[2] \div g2) * (y[2] \div g1))

FDiv(x, y) ==
    IF IsNaN(x) \/ IsNaN(y) THEN FNaN
    ELSE IF IsInf(x) THEN (IF IsInf(y) THEN FNaN
                           ELSE <<x[1] * (IF y[1] < 0 THEN -1 ELSE 1), 0>>)
    ELSE IF IsInf(y) THEN FZero
    ELSE IF y[1] = 0 THEN <<Sgn(x[1]), 0>>
    ELSE FMul(x, <<Sgn(y[1]) * y[2], Abs(y[1])>>)

\* comparisons: every comparison with NaN is false
FLt(x, y) ==
    IF IsNaN(x) \/ IsNaN(y) \/ x = y THEN FALSE
    ELSE IF x = FNInf \/ y = FPInf THEN TRUE
    ELSE IF x = FPInf \/ y = FNInf THEN FALSE
    ELSE LET g == Gcd(x[2], y[2])
         IN x[1] * (y[2] \div g) < y[1] * (x[2] \div g)

FGt(x, y) == FLt(y, x)
FLe(x, y) == ~IsNaN(x) /\ ~IsNaN(y) /\ (x = y \/ FLt(x, y))
FGe(x, y) == FLe(y, x)
FEq(x, y) == ~IsNaN(x) /\ ~IsNaN(y) /\ x = y

FAbs(x) == <<Abs(x[1]), x[2]>>

\* math_utils.h
NGLI_MIX(x0, x1, a) == FAdd(FMul(x0, FSub(FOne, a)), FMul(x1, a))
NGLI_LINEAR_INTERP(x0, x1, x) == FDiv(FSub(x, x0), FSub(x1, x0))

\* lrintf() on a finite value: round to nearest, ties to even
lrintf(x) ==
    LET fl == x[1] \div x[2]
        r2 == 2 * (x[1] - fl * x[2])      \* twice the fractional part, times d
    IN IF r2 < x[2] THEN fl
       ELSE IF r2 > x[2] THEN fl + 1
       ELSE IF fl % 2 = 0 THEN fl ELSE fl + 1

-----------------------------------------------------------------------------
(* Strings *)

NL == 10
SP == 32
LetterA == 97

MaxStrLen == 3

Alphabet == {LetterA, NL}

\* "ab cd ef"
StrAbCdEf == <<97, 98, 32, 99, 100, 32, 101, 102>>

RECURSIVE StringsUpTo(_)
StringsUpTo(n) ==
    IF n = 0 THEN {<<>>}
    ELSE LET S == StringsUpTo(n - 1)
         IN S \cup {Append(s, c) : s \in {x \in S : Len(x) = n - 1}, c \in Alphabet}

Strings == StringsUpTo(MaxStrLen) \cup {StrAbCdEf, <<SP>>}

-----------------------------------------------------------------------------
(* text.h / text.c: the text backend *)

NGLI_TEXT_WRITING_MODE_UNDEFINED     == 0
NGLI_TEXT_WRITING_MODE_HORIZONTAL_TB == 1
NGLI_TEXT_WRITING_MODE_VERTICAL_RL   == 2
NGLI_TEXT_WRITING_MODE_VERTICAL_LR   == 3

NGLI_TEXT_CHAR_CATEGORY_NONE      == 0
NGLI_TEXT_CHAR_CATEGORY_SPACE     == 1
NGLI_TEXT_CHAR_CATEGORY_LINEBREAK == 2

\* drawutils.h: cell size of the built-in font
NGLI_FONT_W == 7
NGLI_FONT_H == 8

\* text.c: padding of the distance field around a glyph
DF_CHAR_PAD == 16

\* memset(s, 0, sizeof(*s))
ZeroText ==
    [ctx |-> NULL,
     config |-> [fontfile |-> NULL, padding |-> 0, wmode |-> 0],
     width |-> 0, height |-> 0,
     chars |-> <<>>,
     atlas_ref |-> NULL,
     ft_face |-> NULL, hb_font |-> NULL,
     lines |-> <<>>, glyph_index |-> {}, owned_atlas |-> NULL]

ngli_darray_clear_mut(chars) == chars
ngli_darray_clear(chars) == <<>>

\* get_char_box_dim(): one step of the loop over s[i], acc = [w, h, cur_w, n]
get_char_box_dim_step(acc, c) ==
    IF c = NL
    THEN [acc EXCEPT !.cur_w = 0, !.h = acc.h + 1]
    ELSE [acc EXCEPT !.cur_w = acc.cur_w + 1,
                     !.w = Max(acc.w, acc.cur_w + 1),
                     !.n = acc.n + 1]

RECURSIVE get_char_box_dim_loop(_, _, _)
get_char_box_dim_loop(str, i, acc) ==
    IF i > Len(str) THEN acc
    ELSE get_char_box_dim_loop(str, i + 1, get_char_box_dim_step(acc, str[i]))

get_char_box_dim_mut(str) ==
    get_char_box_dim_loop(str, 1, [w |-> 0, h |-> 0, cur_w |-> 0, n |-> 0])
get_char_box_dim(str) ==
    get_char_box_dim_loop(str, 1, [w |-> 0, h |-> 1, cur_w |-> 0, n |-> 0])

\* ngli_text_set_string(), built-in font: the loop over str[i] with px, py;
\* oom makes the first ngli_darray_push() fail. Result: [ret, s]
RECURSIVE set_string_builtin_loop(_, _, _, _, _, _, _)
set_string_builtin_loop(s, str, i, px, py, text_rows, oom) ==
    IF i > Len(str) THEN [ret |-> NGL_OK, s |-> s]
    ELSE IF str[i] = NL
    THEN set_string_builtin_loop(s, str, i + 1, 0, py + 1, text_rows, oom)
    ELSE IF oom THEN [ret |-> NGL_ERROR_MEMORY, s |-> s]
    ELSE LET chr == [x |-> s.config.padding + NGLI_FONT_W * px,
                     y |-> s.config.padding + NGLI_FONT_H * (text_rows - py - 1),
                     w |-> NGLI_FONT_W,
                     h |-> NGLI_FONT_H,
                     category |-> NGLI_TEXT_CHAR_CATEGORY_NONE,
                     atlas_uvcoords |-> str[i]]
         IN set_string_builtin_loop([s EXCEPT !.chars = Append(s.chars, chr)],
                                    str, i + 1, px + 1, py, text_rows, oom)

\* split_text(): one shaping buffer per line, each the glyphs of that line (the
\* shaper is taken to map every character to one glyph)
RECURSIVE split_text(_, _, _)
split_text(str, i, cur) ==
    IF i > Len(str) THEN <<cur>>
    ELSE IF str[i] = NL THEN <<cur>> \o split_text(str, i + 1, <<>>)
    ELSE split_text(str, i + 1, Append(cur, str[i]))

\* distmap_create(): a glyph is the rasterized bitmap plus DF_CHAR_PAD on each side;
\* the bitmap of a space is empty
glyph_w(g) == (IF g = SP THEN 0 ELSE NGLI_FONT_W) + DF_CHAR_PAD * 2
glyph_h(g) == (IF g = SP THEN 0 ELSE NGLI_FONT_H) + DF_CHAR_PAD * 2

\* make_glyph_index(): the unique glyph ids of all lines
make_glyph_index(lines) ==
    UNION {{lines[i][j] : j \in 1..Len(lines[i])} : i \in 1..Len(lines)}

\* text_set_string_libs(): the layout loop over the glyphs of one line; the pen
\* advances by one cell per glyph
RECURSIVE set_string_libs_line(_, _, _, _, _)
set_string_libs_line(chars, line, cp, x_cur, y_cur) ==
    IF cp > Len(line) THEN chars
    ELSE LET chr == [x |-> x_cur, y |-> y_cur - glyph_h(line[cp]),
                     w |-> glyph_w(line[cp]), h |-> glyph_h(line[cp]),
                     category |-> NGLI_TEXT_CHAR_CATEGORY_NONE,
                     atlas_uvcoords |-> line[cp]]
             pushed == IF chr.w > 0 /\ chr.h > 0 THEN Append(chars, chr) ELSE chars
         IN set_string_libs_line(pushed, line, cp + 1, x_cur + NGLI_FONT_W, y_cur)

\* text_set_string_libs(): the loop over the lines, one row down per line
RECURSIVE set_string_libs_lines(_, _, _, _, _)
set_string_libs_lines(chars, lines, i, padding, y_cur) ==
    IF i > Len(lines) THEN chars
    ELSE set_string_libs_lines(set_string_libs_line(chars, lines[i], 1, padding, y_cur),
                               lines, i + 1, padding, y_cur - NGLI_FONT_H)

SetMin(S) == CHOOSE m \in S : \A x \in S : m <= x
SetMax(S) == CHOOSE m \in S : \A x \in S : m >= x

\* text_set_string_libs(): the bounding box of the characters and their shift to
\* the origin. With no character pushed x_max - x_min is INT_MIN - INT_MAX, a
\* signed overflow whose outcome is ovf.
set_string_libs_box(s1, chars, ovf) ==
    LET n == Len(chars)
        x_min == SetMin({chars[i].x + DF_CHAR_PAD : i \in 1..n})
        y_min == SetMin({chars[i].y + DF_CHAR_PAD : i \in 1..n})
        x_max == SetMax({chars[i].x + chars[i].w - DF_CHAR_PAD : i \in 1..n})
        y_max == SetMax({chars[i].y + chars[i].h - DF_CHAR_PAD : i \in 1..n})
    IN IF n = 0
       THEN [s1 EXCEPT !.width = ovf + s1.config.padding,
                       !.height = ovf + s1.config.padding]
       ELSE [s1 EXCEPT !.width = x_max - x_min + s1.config.padding,
                       !.height = y_max - y_min + s1.config.padding,
                       !.chars = [i \in 1..n |-> [chars[i] EXCEPT !.x = @ - x_min,
                                                                  !.y = @ - y_min]]]

\* text_set_string_libs(): the lines are shaped, the atlas tex is created
set_string_libs_atlas(s, lines, tex) ==
    [s EXCEPT !.lines = lines,
              !.glyph_index = make_glyph_index(lines),
              !.owned_atlas = tex,
              !.atlas_ref = tex]

\* a build without the libraries that answers as text_init_from_libs() does
text_set_string_libs_mut(s, str, tex, oom, ovf) ==
    [ret |-> NGL_ERROR_UNSUPPORTED, s |-> s, created |-> {}]

\* text_set_string_libs(). tex is the id of the texture atlas_create_libs() creates;
\* oom makes split_text() fail. Result: [ret, s, created]
text_set_string_libs(s, str, tex, oom, ovf) ==
    IF ~have_textlibs
    THEN [ret |-> NGL_ERROR_BUG, s |-> s, created |-> {}]
    ELSE IF oom
    THEN [ret |-> NGL_ERROR_MEMORY, s |-> [s EXCEPT !.lines = <<>>], created |-> {}]
    ELSE [ret |-> NGL_OK,
          s |-> set_string_libs_box(
                    set_string_libs_atlas(s, split_text(str, 1, <<>>), tex),
                    set_string_libs_lines(s.chars, split_text(str, 1, <<>>), 1,
                                          s.config.padding, s.config.padding),
                    ovf),
          created |-> {tex}]

\* ngli_text_set_string(). Result: [ret, s, created]
ngli_text_set_string(s, str, tex, oom, ovf) ==
    LET s0 == [s EXCEPT !.chars = ngli_darray_clear(s.chars)]
    IN IF s0.config.fontfile # NULL
       THEN text_set_string_libs(s0, str, tex, oom, ovf)
       ELSE LET dim == get_char_box_dim(str)
                s1  == [s0 EXCEPT !.width  = dim.w * NGLI_FONT_W + 2 * s0.config.padding,
                                  !.height = dim.h * NGLI_FONT_H + 2 * s0.config.padding]
                r   == set_string_builtin_loop(s1, str, 1, 0, 0, dim.h, oom)
            IN [ret |-> r.ret, s |-> r.s, created |-> {}]

\* atlas_create(): the per-context atlas of the built-in font. fail names the step
\* that fails. Result: [ret, font_atlas, textures]
atlas_create(atlas, texs, tex, fail) ==
    IF atlas # NULL THEN [ret |-> NGL_OK, font_atlas |-> atlas, textures |-> texs]
    ELSE IF fail = "canvas"
    THEN [ret |-> NGL_ERROR_MEMORY, font_atlas |-> atlas, textures |-> texs]
    ELSE IF fail = "create"
    THEN [ret |-> NGL_ERROR_MEMORY, font_atlas |-> NULL, textures |-> texs]
    ELSE IF fail = "init"
    THEN [ret |-> NGL_ERROR_EXTERNAL, font_atlas |-> tex,
          textures |-> texs @@ (tex :> "created")]
    ELSE IF fail = "upload"
    THEN [ret |-> NGL_ERROR_EXTERNAL, font_atlas |-> tex,
          textures |-> texs @@ (tex :> "initialized")]
    ELSE [ret |-> NGL_OK, font_atlas |-> tex, textures |-> texs @@ (tex :> "uploaded")]

\* text_init_builtin(). Result: [ret, s, font_atlas, textures]
text_init_builtin(s, atlas, texs, tex, fail) ==
    IF s.config.wmode # NGLI_TEXT_WRITING_MODE_UNDEFINED
    THEN [ret |-> NGL_ERROR_UNSUPPORTED, s |-> s, font_atlas |-> atlas, textures |-> texs]
    ELSE LET r == atlas_create(atlas, texs, tex, fail)
         IN IF r.ret # NGL_OK
            THEN [ret |-> r.ret, s |-> s, font_atlas |-> r.font_atlas, textures |-> r.textures]
            ELSE [ret |-> NGL_OK, s |-> [s EXCEPT !.atlas_ref = r.font_atlas],
                  font_atlas |-> r.font_atlas, textures |-> r.textures]

\* text_init_from_libs(). Result: [ret, s]
text_init_from_libs(s, fail) ==
    IF ~have_textlibs THEN [ret |-> NGL_ERROR_UNSUPPORTED, s |-> s]
    ELSE IF fail = "ft" THEN [ret |-> NGL_ERROR_EXTERNAL, s |-> s]
    ELSE IF fail = "hb" THEN [ret |-> NGL_ERROR_MEMORY, s |-> [s EXCEPT !.ft_face = 1]]
    ELSE [ret |-> NGL_OK, s |-> [s EXCEPT !.ft_face = 1, !.hb_font = 1]]

\* ngli_text_init() past its assertion. Result: [ret, s, font_atlas, textures]
ngli_text_init(s, cfg, atlas, texs, tex, fail) ==
    LET s1 == [s EXCEPT !.ctx = 1, !.config = cfg, !.chars = <<>>]
    IN IF cfg.fontfile # NULL
       THEN LET r == text_init_from_libs(s1, fail)
            IN [ret |-> r.ret, s |-> r.s, font_atlas |-> atlas, textures |-> texs]
       ELSE text_init_builtin(s1, atlas, texs, tex, fail)

\* the textures left once tex is released (ngli_texture_freep)
ngli_texture_freep(texs, tex) == [t \in DOMAIN texs \ {tex} |-> texs[t]]

\* a reset that releases the atlas of the instance and keeps its fields
ngli_text_reset_mut(s, texs) ==
    [s |-> s, textures |-> ngli_texture_freep(texs, s.owned_atlas)]

\* ngli_text_reset(). Result: [s, textures]
ngli_text_reset(s, texs) ==
    IF s.ctx = NULL THEN [s |-> s, textures |-> texs]
    ELSE [s |-> ZeroText, textures |-> ngli_texture_freep(texs, s.owned_atlas)]

-----------------------------------------------------------------------------
(* The text backend driven directly: init, set_string, reset on one instance *)

MaxTextures == 2

Paddings == {0, 3}
TextConfigs ==
    [fontfile : {NULL, 1}, padding : Paddings,
     wmode : {NGLI_TEXT_WRITING_MODE_UNDEFINED, NGLI_TEXT_WRITING_MODE_HORIZONTAL_TB}]

NoLayout == [str |-> <<>>, valid |-> FALSE, chars |-> <<>>, width |-> 0, height |-> 0]

BackendInitState ==
    /\ have_textlibs \in BOOLEAN
    /\ font_atlas = NULL
    /\ textures = <<>>
    /\ next_texture = 1
    /\ text_ctx = ZeroText
    /\ call = [op |-> "none", str |-> <<>>, ret |-> NGL_OK]
    /\ prev_layout = NoLayout
    /\ priv = <<>>
    /\ text_node = <<>>
    /\ rand_state = 0
    /\ scratch_live = 0
    /\ text_rnodes = <<>>
    /\ drawn = <<>>
    /\ path_priv = <<>>
    /\ path_node = <<>>
    /\ OtherIdle

Running == call.ret # "SIGABRT"

\* ngli_text_init(s, ctx, cfg)
BackendInit(cfg, fail) ==
    /\ Running
    /\ next_texture <= MaxTextures
    /\ IF text_ctx.ctx # NULL
       THEN \* ngli_assert(!s->ctx)
            /\ call' = [op |-> "init", str |-> <<>>, ret |-> "SIGABRT"]
            /\ UNCHANGED <<text_ctx, font_atlas, textures, next_texture>>
       ELSE \E r \in {ngli_text_init(text_ctx, cfg, font_atlas, textures, next_texture, fail)} :
               /\ text_ctx' = r.s
               /\ font_atlas' = r.font_atlas
               /\ textures' = r.textures
               /\ next_texture' = IF next_texture \in DOMAIN r.textures
                                  THEN next_texture + 1 ELSE next_texture
               /\ call' = [op |-> "init", str |-> <<>>, ret |-> r.ret]
    /\ prev_layout' = NoLayout
    /\ UNCHANGED <<have_textlibs, textVars, pathVars, otherVars>>

\* ngli_text_set_string(s, str) on an instance ngli_text_init() was called on
BackendSetString(str, oom, ovf) ==
    /\ Running
    /\ text_ctx.ctx # NULL
    /\ next_texture <= MaxTextures
    /\ \E r \in {ngli_text_set_string(text_ctx, str, next_texture, oom, ovf)} :
          /\ text_ctx' = r.s
          /\ textures' = textures @@ [t \in r.created |-> "uploaded"]
          /\ next_texture' = next_texture + Cardinality(r.created)
          /\ call' = [op |-> "set_string", str |-> str, ret |-> r.ret]
    /\ prev_layout' = IF call.op = "set_string" /\ call.ret = NGL_OK
                         /\ text_ctx.config.fontfile = NULL
                      THEN [str |-> call.str, valid |-> TRUE, chars |-> text_ctx.chars,
                            width |-> text_ctx.width, height |-> text_ctx.height]
                      ELSE NoLayout
    /\ UNCHANGED <<have_textlibs, font_atlas, textVars, pathVars, otherVars>>

\* ngli_text_reset(s)
BackendReset ==
    /\ Running
    /\ \E r \in {ngli_text_reset(text_ctx, textures)} :
          /\ text_ctx' = r.s
          /\ textures' = r.textures
    /\ call' = [op |-> "reset", str |-> <<>>, ret |-> NGL_OK]
    /\ prev_layout' = NoLayout
    /\ UNCHANGED <<have_textlibs, font_atlas, next_texture, textVars, pathVars, otherVars>>

\* outcomes of a signed overflow of INT_MIN - INT_MAX: wrapped, or saturated
IntOverflow == {1, -2147483647 - 1}

\* the steps of ngli_text_init() that can fail under cfg
InitFails(cfg) ==
    IF cfg.fontfile # NULL
    THEN IF have_textlibs THEN {"none", "ft", "hb"} ELSE {"none"}
    ELSE IF cfg.wmode # NGLI_TEXT_WRITING_MODE_UNDEFINED \/ font_atlas # NULL THEN {"none"}
    ELSE {"none", "canvas", "create", "init", "upload"}

\* the allocation failures ngli_text_set_string(str) can meet
SetStringFails(str) ==
    IF text_ctx.config.fontfile # NULL
    THEN IF have_textlibs THEN BOOLEAN ELSE {FALSE}
    ELSE IF \E i \in 1..Len(str) : str[i] # NL THEN BOOLEAN ELSE {FALSE}

\* the outcomes of the overflow ngli_text_set_string(str) can meet
SetStringOverflows(str) ==
    IF text_ctx.config.fontfile # NULL /\ have_textlibs /\ \A i \in 1..Len(str) : str[i] = NL
    THEN IntOverflow ELSE {1}

BackendNext ==
    \/ \E cfg \in TextConfigs : \E fail \in InitFails(cfg) : BackendInit(cfg, fail)
    \/ \E str \in Strings : \E oom \in SetStringFails(str), ovf \in SetStringOverflows(str) :
           BackendSetString(str, oom, ovf)
    \/ BackendReset

SpecBackend == BackendInitState /\ [][BackendNext]_vars

-----------------------------------------------------------------------------
(* node_text.c: segmentation of the characters into elements *)

\* choices of the TextEffect target parameter (node_texteffect.c)
NGLI_TEXT_EFFECT_CHAR         == "char"
NGLI_TEXT_EFFECT_CHAR_NOSPACE == "char_nospace"
NGLI_TEXT_EFFECT_WORD         == "word"
NGLI_TEXT_EFFECT_LINE         == "line"
NGLI_TEXT_EFFECT_TEXT         == "text"

get_nb_chars(chars) == Len(chars)

get_nb_chars_no_space(chars) ==
    Cardinality({i \in 1..Len(chars) : chars[i].category # NGLI_TEXT_CHAR_CATEGORY_SPACE})

\* get_next_elem(): chars is indexed from 1, the element bounds keep the
\* 0-based values of the source. The loop runs from i with the element found so far.
RECURSIVE get_next_elem_loop(_, _, _, _, _)
get_next_elem_loop(chars, i, element, inside_element, separator) ==
    IF i >= Len(chars) THEN element
    ELSE IF chars[i + 1].category = separator
    THEN IF inside_element
         THEN [element EXCEPT !.end = i]
         ELSE get_next_elem_loop(chars, i + 1, element, FALSE, separator)
    ELSE IF ~inside_element
    THEN get_next_elem_loop(chars, i + 1, [element EXCEPT !.start = i], TRUE, separator)
    ELSE get_next_elem_loop(chars, i + 1, element, inside_element, separator)

get_next_elem(chars, last, separator) ==
    LET element == get_next_elem_loop(chars, last.end, [start |-> -1, end |-> -1],
                                      FALSE, separator)
    IN IF element.end = -1 THEN [element EXCEPT !.end = Len(chars)] ELSE element

RECURSIVE get_nb_elems_separator_loop(_, _, _, _)
get_nb_elems_separator_loop(chars, elem, separator, ret) ==
    LET next == get_next_elem(chars, elem, separator)
    IN IF next.start = -1 THEN ret
       ELSE get_nb_elems_separator_loop(chars, next, separator, ret + 1)

get_nb_elems_separator(chars, separator) ==
    get_nb_elems_separator_loop(chars, [start |-> 0, end |-> 0], separator, 0)

get_nb_words(chars) == get_nb_elems_separator(chars, NGLI_TEXT_CHAR_CATEGORY_SPACE)
get_nb_lines(chars) == get_nb_elems_separator(chars, NGLI_TEXT_CHAR_CATEGORY_LINEBREAK)
get_nb_text(chars)  == 1

get_nb_elems(chars, target) ==
    CASE target = NGLI_TEXT_EFFECT_CHAR         -> get_nb_chars(chars)
      [] target = NGLI_TEXT_EFFECT_CHAR_NOSPACE -> get_nb_chars_no_space(chars)
      [] target = NGLI_TEXT_EFFECT_WORD         -> get_nb_words(chars)
      [] target = NGLI_TEXT_EFFECT_LINE         -> get_nb_lines(chars)
      [] target = NGLI_TEXT_EFFECT_TEXT         -> get_nb_text(chars)

-----------------------------------------------------------------------------
(* node_text.c: per-character data *)

\* struct chr_data in floats: transform 16, color 4, alpha 1, stroke_width 1,
\* stroke_color 4, glow_width 1, glow_color 4, blur 1
CHR_DATA_FLOATS == 32

NGLI_MAT4_IDENTITY ==
    [i \in 0..15 |-> IF i % 5 = 0 THEN FOne ELSE FZero]

Vec4(v) == [i \in 0..3 |-> v]

\* a parameter node of a TextEffect: absent, or a uniform holding a value
NoNode == [kind |-> "none", value |-> FZero]
UniformFloat(v) == [kind |-> "uniform", value |-> v]

\* ngli_calloc(n, 1) in floats: a zeroed block
ngli_calloc(n) == [i \in 0..(n - 1) |-> FZero]

\* memcpy(dst, src, n) inside the block mem, from an array outside it
memcpy_in(mem, dst, src, n) ==
    [i \in DOMAIN mem |-> IF i >= dst /\ i < dst + n THEN src[i - dst] ELSE mem[i]]

\* memcpy(dst, src, n) inside one block as a forward copy, cell after cell
RECURSIVE memcpy_forward(_, _, _, _, _)
memcpy_forward(mem, dst, src, n, i) ==
    IF i >= n THEN mem
    ELSE memcpy_forward([mem EXCEPT ![dst + i] = mem[src + i]], dst, src, n, i + 1)

\* memcpy(dst, src, n) inside one block as memmove does it
memcpy_move(mem, dst, src, n) ==
    [i \in DOMAIN mem |-> IF i >= dst /\ i < dst + n THEN mem[src + (i - dst)] ELSE mem[i]]

\* memcpy(dst, src, n) inside one block: overlapping regions are undefined
\* behaviour, ub selects what the build does with them
memcpy(mem, dst, src, n, ub) ==
    IF n = 0 THEN mem
    ELSE IF ub = "forward" THEN memcpy_forward(mem, dst, src, n, 0)
    ELSE memcpy_move(mem, dst, src, n)

memcpy_overlaps(dst, src, n) == n > 0 /\ dst < src + n /\ src < dst + n

\* assign_chr_data_pointers(): the pointers as offsets into the block, ret is the
\* returned end pointer
assign_chr_data_pointers(base, text_nbchr) ==
    LET transform    == base
        color        == transform    + text_nbchr * 4 * 4
        alpha        == color        + text_nbchr * 4
        stroke_width == alpha        + text_nbchr
        stroke_color == stroke_width + text_nbchr
        glow_width   == stroke_color + text_nbchr * 4
        glow_color   == glow_width   + text_nbchr
        blur         == glow_color   + text_nbchr * 4
    IN [transform |-> transform, color |-> color, alpha |-> alpha,
        stroke_width |-> stroke_width, stroke_color |-> stroke_color,
        glow_width |-> glow_width, glow_color |-> glow_color, blur |-> blur,
        ret |-> blur + text_nbchr]

NoPointers ==
    [transform |-> 0, color |-> 0, alpha |-> 0, stroke_width |-> 0, stroke_color |-> 0,
     glow_width |-> 0, glow_color |-> 0, blur |-> 0]

ChrPointers(p) ==
    [transform |-> p.transform, color |-> p.color, alpha |-> p.alpha,
     stroke_width |-> p.stroke_width, stroke_color |-> p.stroke_color,
     glow_width |-> p.glow_width, glow_color |-> p.glow_color, blur |-> p.blur]

\* reset_chars_data_to_defaults(): chars_data_default is offset 0 of the block
reset_chars_data_to_defaults(s, ub) ==
    [s EXCEPT !.mem = memcpy(s.mem, s.chars_data, 0, s.chars_data_size, ub)]

\* update_color(): the loop writing color at defaults.color + i * 4
RECURSIVE update_color_loop(_, _, _, _, _)
update_color_loop(mem, defaults, color, nb_chars, i) ==
    IF i >= nb_chars THEN mem
    ELSE update_color_loop(memcpy_in(mem, defaults.color + i * 4, color, 4),
                           defaults, color, nb_chars, i + 1)

\* update_color(); nb_chars is ngli_darray_count(&s->text_ctx.chars)
update_color(s, color, nb_chars) ==
    LET defaults == assign_chr_data_pointers(0, nb_chars)
    IN [s EXCEPT !.chars_data = defaults.ret,
                 !.mem = update_color_loop(s.mem, defaults, color, nb_chars, 0)]

\* init_characters_data(): the loop writing the defaults of character i
RECURSIVE init_characters_data_loop(_, _, _, _, _)
init_characters_data_loop(mem, defaults, fg_color, text_nbchr, i) ==
    IF i >= text_nbchr THEN mem
    ELSE LET m1 == memcpy_in(mem, defaults.transform + i * 4 * 4, NGLI_MAT4_IDENTITY, 16)
             m2 == memcpy_in(m1,  defaults.color + i * 4, fg_color, 4)
             m3 == memcpy_in(m2,  defaults.alpha + i, Vec4(FOne), 1)
             m4 == memcpy_in(m3,  defaults.stroke_width + i, Vec4(FZero), 1)
             m5 == memcpy_in(m4,  defaults.stroke_color + i * 4, Vec4(FZero), 4)
             m6 == memcpy_in(m5,  defaults.glow_width + i, Vec4(FZero), 1)
             m7 == memcpy_in(m6,  defaults.glow_color + i * 4, Vec4(FZero), 4)
             m8 == memcpy_in(m7,  defaults.blur + i, Vec4(FZero), 1)
         IN init_characters_data_loop(m8, defaults, fg_color, text_nbchr, i + 1)

\* init_characters_data(); oom makes the allocation fail. Result: [ret, s]
init_characters_data(s, text_nbchr, oom) ==
    LET size == text_nbchr * CHR_DATA_FLOATS
    IN IF oom
       THEN [ret |-> NGL_ERROR_MEMORY,
             s |-> [s EXCEPT !.chars_data_size = size, !.chars_data_default = NULL]]
       ELSE LET defaults == assign_chr_data_pointers(0, text_nbchr)
                s1 == [s EXCEPT !.chars_data_size = size,
                                !.chars_data_default = 1,
                                !.chars_data = defaults.ret,
                                !.mem = init_characters_data_loop(ngli_calloc(2 * size), defaults,
                                                                  s.fg_color, text_nbchr, 0),
                                !.chr = ChrPointers(assign_chr_data_pointers(defaults.ret, text_nbchr))]
            IN [ret |-> NGL_OK, s |-> reset_chars_data_to_defaults(s1, "memmove")]

-----------------------------------------------------------------------------
(* node_text.c: effects *)

\* set_f32_from_node(): dst is an offset into the block
set_f32_from_node(mem, dst, node, t) ==
    IF node.kind = "none" THEN mem ELSE [mem EXCEPT ![dst] = node.value]

\* set_vec4_from_node()
set_vec4_from_node(mem, dst, node, t) ==
    IF node.kind = "none" THEN mem ELSE memcpy_in(mem, dst, node.value, 4)

\* set_transform_from_node(): the chain's matrix is the value of the node
set_transform_from_node(mem, dst, node, t) ==
    IF node.kind = "none" THEN mem ELSE memcpy_in(mem, dst, node.value, 16)

\* update_character_data(): the parameter nodes of the effect written for character c
update_character_data(s, effect, c, t) ==
    LET m1 == set_transform_from_node(s.mem, s.chr.transform + c * 4 * 4, effect.transform_chain, t)
        m2 == set_vec4_from_node(m1, s.chr.color + c * 4, effect.color_node, t)
        m3 == set_f32_from_node(m2, s.chr.alpha + c, effect.alpha_node, t)
        m4 == set_f32_from_node(m3, s.chr.stroke_width + c, effect.stroke_width_node, t)
        m5 == set_vec4_from_node(m4, s.chr.stroke_color + c * 4, effect.stroke_color_node, t)
        m6 == set_f32_from_node(m5, s.chr.glow_width + c, effect.glow_width_node, t)
        m7 == set_vec4_from_node(m6, s.chr.glow_color + c * 4, effect.glow_color_node, t)
        m8 == set_f32_from_node(m7, s.chr.blur + c, effect.blur_node, t)
    IN [s EXCEPT !.mem = m8]

\* set_target_range()
set_target_range(chars, effect, t) ==
    LET start_pos == IF effect.start_pos_node.kind = "none" THEN FZero
                     ELSE effect.start_pos_node.value
        end_pos   == IF effect.end_pos_node.kind = "none" THEN FOne
                     ELSE effect.end_pos_node.value
        overlap   == IF effect.overlap_node.kind = "none" THEN FZero
                     ELSE effect.overlap_node.value
        text_nbchr == Len(chars)
    IN [start_chr |-> Max(lrintf(FMul(FI(text_nbchr), start_pos)), 0),
        end_chr   |-> Min(lrintf(FMul(FI(text_nbchr), end_pos)), text_nbchr),
        overlap   |-> overlap]

\* the time of an element at position pos among nb_elems elements
target_time(nb_elems, range, pos, effect_t) ==
    LET target_duration  == FSub(FI(nb_elems), FMul(range.overlap, FI(nb_elems - 1)))
        target_timescale == FDiv(FSub(FOne, range.overlap), target_duration)
        t_prv == FMul(target_timescale, FI(pos))
        t_nxt == FAdd(t_prv, FDiv(FOne, target_duration))
    IN NGLI_LINEAR_INTERP(t_prv, t_nxt, effect_t)

\* apply_effects_char(): the loop from character c
RECURSIVE apply_effects_char(_, _, _, _, _, _)
apply_effects_char(s, effect, range, effect_t, effect_id, c) ==
    IF c >= range.end_chr THEN s
    ELSE LET c_pos == s.element_positions[effect_id][c + 1]
             target_t == target_time(s.element_counts[effect_id], range, c_pos, effect_t)
         IN apply_effects_char(update_character_data(s, effect, c, target_t),
                               effect, range, effect_t, effect_id, c + 1)

\* apply_effects_char_nospace(): the loop from character c with c_id
RECURSIVE apply_effects_char_nospace(_, _, _, _, _, _, _, _)
apply_effects_char_nospace(s, chars, effect, range, effect_t, effect_id, c, c_id) ==
    IF c >= range.end_chr THEN s
    ELSE IF chars[c + 1].category = NGLI_TEXT_CHAR_CATEGORY_SPACE
    THEN apply_effects_char_nospace(s, chars, effect, range, effect_t, effect_id, c + 1, c_id)
    ELSE LET c_pos == s.element_positions[effect_id][c_id + 1]
             target_t == target_time(s.element_counts[effect_id], range, c_pos, effect_t)
         IN apply_effects_char_nospace(update_character_data(s, effect, c, target_t), chars,
                                       effect, range, effect_t, effect_id, c + 1, c_id + 1)

\* apply_effects_separator(): the characters elem.start..elem.end-1 of one element
RECURSIVE apply_effects_elem(_, _, _, _, _)
apply_effects_elem(s, effect, c, elem_end, target_t) ==
    IF c >= elem_end THEN s
    ELSE apply_effects_elem(update_character_data(s, effect, c, target_t),
                            effect, c + 1, elem_end, target_t)

\* apply_effects_separator(): the loop over the elements from elem
RECURSIVE apply_effects_separator_loop(_, _, _, _, _, _, _, _, _)
apply_effects_separator_loop(s, chars, effect, range, effect_t, effect_id, separator, elem, elem_id) ==
    LET next == get_next_elem(chars, elem, separator)
    IN IF next.start = -1 THEN s
       ELSE LET pos == s.element_positions[effect_id][elem_id + 1]
            IN IF next.start < range.start_chr
               THEN apply_effects_separator_loop(s, chars, effect, range, effect_t, effect_id,
                                                 separator, next, elem_id + 1)
               ELSE LET target_t == target_time(s.element_counts[effect_id], range, pos, effect_t)
                        s1 == apply_effects_elem(s, effect, next.start, next.end, target_t)
                    IN IF next.end >= range.end_chr THEN s1
                       ELSE apply_effects_separator_loop(s1, chars, effect, range, effect_t,
                                                         effect_id, separator, next, elem_id + 1)

apply_effects_separator(s, chars, effect, range, effect_t, effect_id, separator) ==
    apply_effects_separator_loop(s, chars, effect, range, effect_t, effect_id, separator,
                                 [start |-> range.start_chr, end |-> 0], 0)

\* apply_effects_text(): the loop from character c
RECURSIVE apply_effects_text(_, _, _, _, _)
apply_effects_text(s, effect, range, effect_t, c) ==
    IF c >= range.end_chr THEN s
    ELSE apply_effects_text(update_character_data(s, effect, c, effect_t),
                            effect, range, effect_t, c + 1)

\* apply_effects(): the test that skips effect at time t
effect_skipped(effect, t) == FLt(t, effect.start_time) \/ FGt(t, effect.end_time)

\* apply_effects(): the loop over the effects from effect i (1-based)
RECURSIVE apply_effects_loop(_, _, _, _)
apply_effects_loop(s, chars, t, i) ==
    IF i > Len(s.effect_nodes) THEN s
    ELSE LET effect == s.effect_nodes[i]
         IN IF effect_skipped(effect, t) THEN apply_effects_loop(s, chars, t, i + 1)
            ELSE LET effect_t == NGLI_LINEAR_INTERP(effect.start_time, effect.end_time, t)
                     range == set_target_range(chars, effect, effect_t)
                     s1 == CASE effect.target = NGLI_TEXT_EFFECT_CHAR ->
                                    apply_effects_char(s, effect, range, effect_t, i, range.start_chr)
                             [] effect.target = NGLI_TEXT_EFFECT_CHAR_NOSPACE ->
                                    apply_effects_char_nospace(s, chars, effect, range, effect_t, i,
                                                               range.start_chr, range.start_chr)
                             [] effect.target = NGLI_TEXT_EFFECT_WORD ->
                                    apply_effects_separator(s, chars, effect, range, effect_t, i,
                                                            NGLI_TEXT_CHAR_CATEGORY_SPACE)
                             [] effect.target = NGLI_TEXT_EFFECT_LINE ->
                                    apply_effects_separator(s, chars, effect, range, effect_t, i,
                                                            NGLI_TEXT_CHAR_CATEGORY_LINEBREAK)
                             [] effect.target = NGLI_TEXT_EFFECT_TEXT ->
                                    apply_effects_text(s, effect, range, effect_t, range.start_chr)
                 IN apply_effects_loop(s1, chars, t, i + 1)

\* apply_effects()
apply_effects(s, chars, t, ub) ==
    apply_effects_loop(reset_chars_data_to_defaults(s, ub), chars, t, 1)

-----------------------------------------------------------------------------
(* node_text.c: the Text node *)

\* random() and srandom() of the C library: a generator whose state is its last output
RAND_STATES == 8
srandom(seed) == seed % RAND_STATES
random(rng) == (rng * 5 + 3) % RAND_STATES

\* a shuffle that copies positions[r] to positions[i] without the swap
RECURSIVE shuffle_positions_mut(_, _, _, _)
shuffle_positions_mut(positions, n, i, rng) ==
    IF i >= n - 1 THEN [positions |-> positions, rng |-> rng]
    ELSE LET next == random(rng)
             r == i + (next % (n - i))
         IN shuffle_positions_mut([positions EXCEPT ![i + 1] = positions[r + 1]],
                                  n, i + 1, next)

\* shuffle_positions(): the loop from i; positions is 1-based. Result: [positions, rng]
RECURSIVE shuffle_positions(_, _, _, _)
shuffle_positions(positions, n, i, rng) ==
    IF i >= n - 1 THEN [positions |-> positions, rng |-> rng]
    ELSE LET next == random(rng)
             r == i + (next % (n - i))
             swapped == [positions EXCEPT ![i + 1] = positions[r + 1],
                                          ![r + 1] = positions[i + 1]]
         IN shuffle_positions(swapped, n, i + 1, next)

\* set_element_positions(): the loop from effect i (1-based); oom makes the
\* first ngli_calloc() fail. Result: [ret, s, rng]
RECURSIVE set_element_positions(_, _, _, _, _)
set_element_positions(s, chars, rng, oom, i) ==
    IF i > Len(s.effect_nodes) THEN [ret |-> NGL_OK, s |-> s, rng |-> rng]
    ELSE LET effect_priv == s.effect_nodes[i]
             nb_elems == get_nb_elems(chars, effect_priv.target)
         IN IF nb_elems = 0
            THEN [ret |-> NGL_ERROR_INVALID_USAGE, s |-> s, rng |-> rng]
            ELSE IF oom
            THEN [ret |-> NGL_ERROR_MEMORY,
                  s |-> [s EXCEPT !.element_counts[i] = nb_elems], rng |-> rng]
            ELSE LET identity == [j \in 1..nb_elems |-> j - 1]
                     seeded == IF effect_priv.random /\ effect_priv.random_seed >= 0
                               THEN srandom(effect_priv.random_seed) ELSE rng
                     sh == IF effect_priv.random
                           THEN shuffle_positions(identity, nb_elems, 0, seeded)
                           ELSE [positions |-> identity, rng |-> rng]
                 IN set_element_positions([s EXCEPT !.element_counts[i] = nb_elems,
                                                    !.element_positions[i] = sh.positions],
                                          chars, sh.rng, FALSE, i + 1)

NullBuffer == [created |-> FALSE, size |-> 0, uploaded |-> 0]

\* ngli_buffer_create() then ngli_buffer_init(size)
ngli_buffer_init(size) == [created |-> TRUE, size |-> size, uploaded |-> 0]

\* ngli_buffer_upload(size)
ngli_buffer_upload(buffer, size) == [buffer EXCEPT !.uploaded = size]

NullDescFg ==
    [crafter |-> FALSE, pipeline |-> FALSE, glyph_rects_index |-> 0, glyph_sizes_index |-> 0,
     text_nbchr |-> 0]
NullDescBg == [crafter |-> FALSE, pipeline |-> FALSE]

\* init_characters_pipeline(); fail names the step that fails. The attribute
\* loop compares attributes_desc[0].name, which is "position", so that both
\* indices keep -1. Result: [ret, desc]
init_characters_pipeline(desc, text_nbchr, fail) ==
    IF fail = "pgcraft_create" THEN [ret |-> NGL_ERROR_MEMORY, desc |-> desc]
    ELSE IF fail = "pipeline_create"
    THEN [ret |-> NGL_ERROR_MEMORY, desc |-> [desc EXCEPT !.crafter = TRUE]]
    ELSE [ret |-> NGL_OK,
          desc |-> [crafter |-> TRUE, pipeline |-> TRUE,
                    glyph_rects_index |-> -1, glyph_sizes_index |-> -1,
                    text_nbchr |-> text_nbchr]]

\* destroy_characters_resources() keeping nb_indices and the glyph buffers
destroy_characters_resources_mut(s) ==
    [s EXCEPT !.pipeline_descs = [i \in 1..Len(s.pipeline_descs) |->
                                     [s.pipeline_descs[i] EXCEPT !.fg = NullDescFg]],
              !.element_positions = [i \in 1..Len(s.element_positions) |-> <<>>],
              !.chars_data = NULL,
              !.chars_data_default = NULL,
              !.mem = <<>>,
              !.chars_data_size = 0]

\* destroy_characters_resources()
destroy_characters_resources(s) ==
    [s EXCEPT !.pipeline_descs = [i \in 1..Len(s.pipeline_descs) |->
                                     [s.pipeline_descs[i] EXCEPT !.fg = NullDescFg]],
              !.vertices = NullBuffer,
              !.uvcoords = NullBuffer,
              !.indices = NullBuffer,
              !.nb_indices = 0,
              !.glyph_rects = NullBuffer,
              !.glyph_sizes = NullBuffer,
              !.element_positions = [i \in 1..Len(s.element_positions) |-> <<>>],
              !.chars_data = NULL,
              !.chars_data_default = NULL,
              !.mem = <<>>,
              !.chars_data_size = 0]

\* update_character_geometries(): the loop initializing the pipeline of every
\* descriptor from i (1-based). Result: [ret, descs]
RECURSIVE init_pipelines(_, _, _, _)
init_pipelines(descs, text_nbchr, fail, i) ==
    IF i > Len(descs) THEN [ret |-> NGL_OK, descs |-> descs]
    ELSE LET r == init_characters_pipeline(descs[i].fg, text_nbchr, fail)
             d == [descs EXCEPT ![i].fg = r.desc]
         IN IF r.ret # NGL_OK THEN [ret |-> r.ret, descs |-> d]
            ELSE init_pipelines(d, text_nbchr, "none", i + 1)

\* update_character_geometries(): the five ngli_buffer_create() of the
\* re-allocation branch
create_buffers(s, fail) ==
    [s EXCEPT !.vertices    = IF fail = "buffer_create" THEN NullBuffer
                              ELSE [NullBuffer EXCEPT !.created = TRUE],
              !.uvcoords    = [NullBuffer EXCEPT !.created = TRUE],
              !.indices     = [NullBuffer EXCEPT !.created = TRUE],
              !.glyph_rects = [NullBuffer EXCEPT !.created = TRUE],
              !.glyph_sizes = [NullBuffer EXCEPT !.created = TRUE]]

\* update_character_geometries(): the five ngli_buffer_init()
init_buffers(s, text_nbchr) ==
    [s EXCEPT !.vertices    = ngli_buffer_init(text_nbchr * 4 * 3),
              !.uvcoords    = ngli_buffer_init(text_nbchr * 4 * 2),
              !.indices     = ngli_buffer_init(text_nbchr * 6),
              !.glyph_rects = ngli_buffer_init(text_nbchr * 4 * 4),
              !.glyph_sizes = ngli_buffer_init(text_nbchr * 4 * 2)]

\* update_character_geometries(): the five ngli_buffer_upload(), then nb_indices
upload_buffers(s, text_nbchr) ==
    [s EXCEPT !.vertices    = ngli_buffer_upload(@, text_nbchr * 4 * 3),
              !.uvcoords    = ngli_buffer_upload(@, text_nbchr * 4 * 2),
              !.indices     = ngli_buffer_upload(@, text_nbchr * 6),
              !.glyph_rects = ngli_buffer_upload(@, text_nbchr * 4 * 4),
              !.glyph_sizes = ngli_buffer_upload(@, text_nbchr * 4 * 2),
              !.nb_indices  = text_nbchr * 6]

\* the results of the re-allocation branch are [ret, s, rng, scratch]: scratch
\* tells whether the branch returned with the scratch arrays still allocated
\* (TRUE) or reached the "end" label (FALSE)

\* update_character_geometries(): re-allocation branch, the pipelines of s3
realloc_pipelines(s3, p, rng) ==
    [ret |-> p.ret, s |-> [s3 EXCEPT !.pipeline_descs = p.descs], rng |-> rng,
     scratch |-> FALSE]

\* update_character_geometries(): re-allocation branch from the result d of
\* init_characters_data()
realloc_buffers(d, rng, text_nbchr, fail) ==
    IF d.ret # NGL_OK THEN [ret |-> d.ret, s |-> d.s, rng |-> rng, scratch |-> TRUE]
    ELSE IF fail = "buffer_create"
    THEN [ret |-> NGL_ERROR_MEMORY, s |-> create_buffers(d.s, fail), rng |-> rng,
          scratch |-> FALSE]
    ELSE IF fail = "buffer_init"
    THEN [ret |-> NGL_ERROR_EXTERNAL, s |-> create_buffers(d.s, fail), rng |-> rng,
          scratch |-> FALSE]
    ELSE realloc_pipelines(init_buffers(d.s, text_nbchr),
                           init_pipelines(d.s.pipeline_descs, text_nbchr, fail, 1), rng)

\* update_character_geometries(): re-allocation branch from the result e of
\* set_element_positions()
realloc_data(e, text_nbchr, fail) ==
    IF e.ret # NGL_OK THEN [ret |-> e.ret, s |-> e.s, rng |-> e.rng, scratch |-> TRUE]
    ELSE realloc_buffers(init_characters_data(e.s, text_nbchr, fail = "chars_data"),
                         e.rng, text_nbchr, fail)

\* update_character_geometries(): the re-allocation branch
realloc_characters(s, chars, rng, fail) ==
    realloc_data(set_element_positions(destroy_characters_resources(s), chars, rng,
                                       fail = "element_positions", 1),
                 Len(chars), fail)

\* the results of update_character_geometries() are [ret, s, tc, created, rng,
\* scratch]: tc is s->text_ctx, scratch is the number of scratch arrays still
\* allocated at the return
geometries_result(ret, s, t, rng, scratch) ==
    [ret |-> ret, s |-> s, tc |-> t.s, created |-> t.created, rng |-> rng,
     scratch |-> scratch]

\* update_character_geometries(): from the result r of the re-allocation branch:
\* the uploads, nb_indices and update_color()
upload_characters(r, t, fail) ==
    IF r.ret # NGL_OK
    THEN geometries_result(r.ret, r.s, t, r.rng, IF r.scratch THEN 5 ELSE 0)
    ELSE IF fail = "upload"
    THEN geometries_result(NGL_ERROR_EXTERNAL, r.s, t, r.rng, 0)
    ELSE geometries_result(NGL_OK,
                           update_color(upload_buffers(r.s, Len(t.s.chars)), r.s.fg_color,
                                        Len(t.s.chars)),
                           t, r.rng, 0)

\* update_character_geometries(): from the result t of ngli_text_set_string()
layout_characters(s, t, rng, fail) ==
    IF t.ret # NGL_OK THEN geometries_result(t.ret, s, t, rng, 0)
    ELSE IF Len(t.s.chars) = 0
    THEN geometries_result(NGL_OK, destroy_characters_resources(s), t, rng, 0)
    ELSE IF fail = "scratch" THEN geometries_result(NGL_ERROR_MEMORY, s, t, rng, 0)
    ELSE upload_characters(IF Len(t.s.chars) * 6 > s.nb_indices
                           THEN realloc_characters(s, t.s.chars, rng, fail)
                           ELSE [ret |-> NGL_OK, s |-> s, rng |-> rng, scratch |-> FALSE],
                           t, fail)

\* update_character_geometries()
update_character_geometries(s, tc, tex, rng, fail, ovf) ==
    layout_characters(s, ngli_text_set_string(tc, s.text, tex, fail = "set_string", ovf),
                      rng, fail)

\* init_bounding_box_geometry(); oom makes a buffer creation fail. Result: [ret, s]
init_bounding_box_geometry(s, oom) ==
    IF oom
    THEN [ret |-> NGL_ERROR_MEMORY,
          s |-> [s EXCEPT !.bg_vertices = [NullBuffer EXCEPT !.created = TRUE]]]
    ELSE [ret |-> NGL_OK,
          s |-> [s EXCEPT !.bg_vertices = ngli_buffer_upload(ngli_buffer_init(4 * 3), 4 * 3),
                          !.bg_indices  = ngli_buffer_upload(ngli_buffer_init(6), 6),
                          !.nb_bg_indices = 6]]

\* the results of text_init() are [ret, s, tc, font_atlas, textures, rng, scratch]
init_result(ret, s, i, rng, scratch) ==
    [ret |-> ret, s |-> s, tc |-> i.s, font_atlas |-> i.font_atlas,
     textures |-> i.textures, rng |-> rng, scratch |-> scratch]

\* text_init(): from the result u of update_character_geometries()
text_init_characters(u, i) ==
    [ret |-> u.ret, s |-> u.s, tc |-> u.tc, font_atlas |-> i.font_atlas,
     textures |-> i.textures @@ [x \in u.created |-> "uploaded"], rng |-> u.rng,
     scratch |-> u.scratch]

\* text_init(): the element tables of the effects
alloc_element_tables(s) ==
    [s EXCEPT !.element_positions = [k \in 1..Len(s.effect_nodes) |-> <<>>],
              !.element_counts    = [k \in 1..Len(s.effect_nodes) |-> 0]]

\* text_init(): from the result b of init_bounding_box_geometry()
text_init_elements(b, i, tex, rng, fail, ovf) ==
    IF b.ret # NGL_OK THEN init_result(b.ret, b.s, i, rng, 0)
    ELSE IF Len(b.s.effect_nodes) > 0 /\ fail = "element_tables"
    THEN init_result(NGL_ERROR_MEMORY, b.s, i, rng, 0)
    ELSE text_init_characters(
             update_character_geometries(alloc_element_tables(b.s), i.s, tex, rng, fail, ovf), i)

\* text_init(): from the result i of ngli_text_init()
text_init_box(s, i, tex, rng, fail, ovf) ==
    IF i.ret # NGL_OK THEN init_result(i.ret, s, i, rng, 0)
    ELSE text_init_elements(
             init_bounding_box_geometry([s EXCEPT !.pipeline_descs = <<>>], fail = "bg_buffer"),
             i, tex, rng, fail, ovf)

\* text_init()
text_init(s, tc, atlas, texs, tex, rng, fail, ovf) ==
    text_init_box(s,
                  ngli_text_init(tc, [padding |-> s.padding, fontfile |-> s.font_file,
                                      wmode |-> s.writing_mode],
                                 atlas, texs, tex, fail),
                  tex, rng, fail, ovf)

\* bg_prepare(). Result: [ret, desc]
bg_prepare(fail) ==
    IF fail = "bg_pgcraft_create" THEN [ret |-> NGL_ERROR_MEMORY, desc |-> NullDescBg]
    ELSE IF fail = "bg_pipeline_create"
    THEN [ret |-> NGL_ERROR_MEMORY, desc |-> [crafter |-> TRUE, pipeline |-> FALSE]]
    ELSE [ret |-> NGL_OK, desc |-> [crafter |-> TRUE, pipeline |-> TRUE]]

\* a prepare that leaves the foreground to the next layout
fg_prepare_mut(desc, chars, fail) == [ret |-> NGL_OK, desc |-> desc]

\* fg_prepare(). Result: [ret, desc]
fg_prepare(desc, chars, fail) ==
    IF Len(chars) = 0 THEN [ret |-> NGL_OK, desc |-> desc]
    ELSE init_characters_pipeline(desc, Len(chars), fail)

\* text_prepare(): the descriptor is pushed, bg and fg are the results of
\* bg_prepare() and fg_prepare()
push_pipeline_desc(s, bg, fg) ==
    IF bg.ret # NGL_OK
    THEN [ret |-> bg.ret,
          s |-> [s EXCEPT !.pipeline_descs = Append(@, [bg |-> bg.desc, fg |-> NullDescFg])]]
    ELSE [ret |-> fg.ret,
          s |-> [s EXCEPT !.pipeline_descs = Append(@, [bg |-> bg.desc, fg |-> fg.desc])]]

\* text_prepare(). Result: [ret, s]; the id given to the render node is the
\* index of the pushed descriptor
text_prepare(s, chars, fail) ==
    IF fail = "push" THEN [ret |-> NGL_ERROR_MEMORY, s |-> s]
    ELSE push_pipeline_desc(s, bg_prepare(fail), fg_prepare(NullDescFg, chars, fail))

\* text_update(): from the result u of update_character_geometries()
text_update_effects(u, t, ub) ==
    IF u.ret # NGL_OK THEN u
    ELSE [u EXCEPT !.s = apply_effects([u.s EXCEPT !.live_changed = FALSE],
                                       u.tc.chars, t, ub)]

\* text_update(). Result: [ret, s, tc, created, rng, scratch]
text_update(s, tc, t, tex, rng, scratch0, fail, ovf, ub) ==
    IF s.live_changed
    THEN text_update_effects(update_character_geometries(s, tc, tex, rng, fail, ovf), t, ub)
    ELSE [ret |-> NGL_OK, s |-> apply_effects(s, tc.chars, t, ub), tc |-> tc,
          created |-> {}, rng |-> rng, scratch |-> scratch0]

NoDraw == [bg |-> FALSE, fg |-> FALSE, nb_glyph |-> 0, nb_indices |-> 0,
           chr_transform |-> <<>>, chr_color |-> <<>>, chr_alpha |-> <<>>]

\* the count floats at the offset ptr of the block, as a uniform upload reads them
uniform_data(mem, ptr, count) == [k \in 1..count |-> mem[ptr + k - 1]]

\* text_draw() with the descriptor of the render node
text_draw(s, chars, desc) ==
    IF s.nb_indices # 0
    THEN [bg |-> TRUE, fg |-> TRUE, nb_glyph |-> Len(chars), nb_indices |-> s.nb_indices,
          chr_transform |-> uniform_data(s.mem, s.chr.transform, desc.fg.text_nbchr * 16),
          chr_color     |-> uniform_data(s.mem, s.chr.color, desc.fg.text_nbchr * 4),
          chr_alpha     |-> uniform_data(s.mem, s.chr.alpha, desc.fg.text_nbchr)]
    ELSE [NoDraw EXCEPT !.bg = TRUE]

\* text_uninit(): the node's own resources; ngli_text_reset() is applied to text_ctx
text_uninit(s) ==
    [destroy_characters_resources(s) EXCEPT
        !.bg_vertices = NullBuffer,
        !.bg_indices = NullBuffer,
        !.element_positions = <<>>,
        !.element_counts = <<>>,
        !.pipeline_descs = <<>>]

-----------------------------------------------------------------------------
(* The Text node driven by the node framework *)

MaxTextLen == 2
MaxSegmentTextLen == 1
MaxDescs == 1

RECURSIVE TextsUpTo(_, _)
TextsUpTo(alphabet, n) ==
    IF n = 0 THEN {<<>>}
    ELSE LET S == TextsUpTo(alphabet, n - 1)
         IN S \cup {Append(s, c) : s \in {x \in S : Len(x) = n - 1}, c \in alphabet}

\* the texts of letters, which differ by their number of characters
Texts == TextsUpTo({LetterA}, MaxTextLen)

\* the texts of letters, spaces and line breaks
SegmentTexts == TextsUpTo({LetterA, SP, NL}, MaxSegmentTextLen)

White == Vec4(FOne)
Red == [i \in 0..3 |-> IF i \in {0, 3} THEN FOne ELSE FZero]
Colors == {White, Red}

\* the unset aspect ratio, which the layout replaces by 1:1
AspectRatios == {<<0, 0>>}

Times == {FI(0), FI(1), FI(2), FI(3)}

\* a TextEffect over [1, 2] that drives the alpha of its target to 1/2
AlphaEffect(target) ==
    [start_time |-> FI(1), end_time |-> FI(2), target |-> target,
     random |-> FALSE, random_seed |-> 0,
     start_pos_node |-> NoNode, end_pos_node |-> NoNode, overlap_node |-> NoNode,
     transform_chain |-> NoNode, color_node |-> NoNode,
     alpha_node |-> UniformFloat(F(1, 2)),
     stroke_width_node |-> NoNode, stroke_color_node |-> NoNode,
     glow_width_node |-> NoNode, glow_color_node |-> NoNode, blur_node |-> NoNode]

\* effects lists of a Text node: none or one effect on the whole text
EffectLists == {<<>>, <<AlphaEffect(NGLI_TEXT_EFFECT_TEXT)>>}

\* effects lists with one effect on a segmentation of the text
SegmentEffectLists ==
    {<<AlphaEffect(target)>> :
        target \in {NGLI_TEXT_EFFECT_CHAR_NOSPACE, NGLI_TEXT_EFFECT_WORD, NGLI_TEXT_EFFECT_LINE}}

\* the private data of a Text node: zeroed, then the parameters
NewText(text, fg_color, effects) ==
    [text |-> text, fg_color |-> fg_color, font_file |-> NULL,
     writing_mode |-> NGLI_TEXT_WRITING_MODE_UNDEFINED, padding |-> 3,
     effect_nodes |-> effects, aspect_ratio |-> <<0, 0>>,
     vertices |-> NullBuffer, uvcoords |-> NullBuffer, indices |-> NullBuffer,
     nb_indices |-> 0, glyph_rects |-> NullBuffer, glyph_sizes |-> NullBuffer,
     element_positions |-> <<>>, element_counts |-> <<>>,
     chr |-> NoPointers, chars_data |-> NULL, chars_data_default |-> NULL,
     chars_data_size |-> 0, mem |-> <<>>,
     bg_vertices |-> NullBuffer, bg_indices |-> NullBuffer, nb_bg_indices |-> 0,
     pipeline_descs |-> <<>>, live_changed |-> FALSE]

NodeCall(state, op, ret, t) == [state |-> state, op |-> op, ret |-> ret, t |-> t]

TextInitState ==
    /\ have_textlibs = FALSE
    /\ font_atlas = NULL
    /\ textures = <<>>
    /\ next_texture = 1
    /\ text_ctx = ZeroText
    /\ call = [op |-> "none", str |-> <<>>, ret |-> NGL_OK]
    /\ prev_layout = NoLayout
    /\ priv = NewText(<<>>, White, <<>>)
    /\ text_node = NodeCall("created", "none", NGL_OK, FZero)
    /\ rand_state = 0
    /\ scratch_live = 0
    /\ text_rnodes = <<>>
    /\ drawn = NoDraw
    /\ path_priv = <<>>
    /\ path_node = <<>>
    /\ OtherIdle

\* the failures a layout of the node's text can meet
LayoutFails ==
    {"none", "set_string", "scratch", "element_positions", "chars_data", "buffer_create",
     "pgcraft_create", "upload"}

\* text_init() of the node: a new node gets its parameters first, a node that
\* was uninitialized keeps its private data
TextInit(text, fg_color, effects, fail) ==
    /\ \/ text_node.state = "created"
       \/ /\ text_node.state = "uninitialized"
          /\ text = priv.text
          /\ fg_color = priv.fg_color
          /\ effects = priv.effect_nodes
    /\ \E r \in {text_init(IF text_node.state = "created"
                          THEN NewText(text, fg_color, effects) ELSE priv,
                          text_ctx, font_atlas, textures, next_texture, rand_state, fail, 1)} :
          /\ priv' = r.s
          /\ text_ctx' = r.tc
          /\ font_atlas' = r.font_atlas
          /\ textures' = r.textures
          /\ next_texture' = IF next_texture \in DOMAIN r.textures
                             THEN next_texture + 1 ELSE next_texture
          /\ rand_state' = r.rng
          /\ scratch_live' = r.scratch
          /\ text_node' = NodeCall(IF r.ret = NGL_OK THEN "initialized" ELSE "init_failed",
                              "init", r.ret, FZero)
    /\ drawn' = NoDraw
    /\ UNCHANGED <<have_textlibs, call, prev_layout, text_rnodes, pathVars, otherVars>>

\* an id that counts the descriptors from 1
text_rnode_id_mut(descs) == Len(descs)

\* text_prepare(): ctx->rnode_pos->id, from the list the descriptor was pushed to
text_rnode_id(descs) == Len(descs) - 1

\* text_prepare() for one more render path, of max_descs at most; the render
\* path keeps the id it was given; the scene of a node whose prepare failed is
\* not rendered
TextPrepareUpTo(fail, max_descs) ==
    /\ text_node.state = "initialized"
    /\ Len(priv.pipeline_descs) < max_descs
    /\ \E r \in {text_prepare(priv, text_ctx.chars, fail)} :
          /\ priv' = r.s
          /\ text_rnodes' = IF fail = "push" THEN text_rnodes
                            ELSE Append(text_rnodes, text_rnode_id(r.s.pipeline_descs))
          /\ text_node' = NodeCall(IF r.ret = NGL_OK THEN text_node.state ELSE "prepare_failed",
                                   "prepare", r.ret, FZero)
    /\ drawn' = NoDraw
    /\ UNCHANGED <<backendVars, rand_state, scratch_live, pathVars, otherVars>>

TextPrepare(fail) == TextPrepareUpTo(fail, MaxDescs)

\* live change of the text parameter: the value is stored, then set_live_changed()
SetText(text) ==
    /\ text_node.state = "initialized"
    /\ priv' = [priv EXCEPT !.text = text, !.live_changed = TRUE]
    /\ text_node' = NodeCall(text_node.state, "set_param", NGL_OK, FZero)
    /\ drawn' = NoDraw
    /\ UNCHANGED <<backendVars, rand_state, scratch_live, text_rnodes, pathVars, otherVars>>

\* live change of the fg_color parameter: the value is stored, the parameter
\* has no update_func
SetFgColor(fg_color) ==
    /\ text_node.state = "initialized"
    /\ priv' = [priv EXCEPT !.fg_color = fg_color]
    /\ text_node' = NodeCall(text_node.state, "set_param", NGL_OK, FZero)
    /\ drawn' = NoDraw
    /\ UNCHANGED <<backendVars, rand_state, scratch_live, text_rnodes, pathVars, otherVars>>

\* live change of the aspect_ratio parameter: the value is stored, then
\* set_live_changed()
SetAspectRatio(ar) ==
    /\ text_node.state = "initialized"
    /\ priv' = [priv EXCEPT !.aspect_ratio = ar, !.live_changed = TRUE]
    /\ text_node' = NodeCall(text_node.state, "set_param", NGL_OK, FZero)
    /\ drawn' = NoDraw
    /\ UNCHANGED <<backendVars, rand_state, scratch_live, text_rnodes, pathVars, otherVars>>

\* the reset of apply_effects() copies between overlapping regions
ResetOverlaps == memcpy_overlaps(priv.chars_data, 0, priv.chars_data_size)

\* text_update(t); the scene of a node whose update failed is not rendered further
TextUpdate(t, fail, ub) ==
    /\ text_node.state = "initialized"
    /\ \E r \in {text_update(priv, text_ctx, t, next_texture, rand_state, scratch_live,
                            fail, 1, ub)} :
          /\ priv' = r.s
          /\ text_ctx' = r.tc
          /\ rand_state' = r.rng
          /\ scratch_live' = r.scratch
          /\ text_node' = NodeCall(IF r.ret = NGL_OK THEN text_node.state ELSE "update_failed",
                                   "update", r.ret, IF r.ret = NGL_OK THEN t ELSE FZero)
    /\ drawn' = NoDraw
    /\ UNCHANGED <<have_textlibs, font_atlas, textures, next_texture, call, prev_layout, text_rnodes, pathVars, otherVars>>

\* text_draw() of the render path rn, whose descriptor is descs[ctx->rnode_pos->id];
\* a draw through an id outside the list is undefined and is not followed
TextDraw(rn) ==
    /\ text_node.state = "initialized"
    /\ text_node.op = "update"
    /\ text_node.ret = NGL_OK
    /\ rn \in 1..Len(text_rnodes)
    /\ text_rnodes[rn] + 1 \in 1..Len(priv.pipeline_descs)
    /\ priv.pipeline_descs[text_rnodes[rn] + 1].bg.pipeline
    /\ drawn' = text_draw(priv, text_ctx.chars, priv.pipeline_descs[text_rnodes[rn] + 1])
    /\ text_node' = NodeCall(text_node.state, "draw", NGL_OK, text_node.t)
    /\ UNCHANGED <<backendVars, priv, rand_state, scratch_live, text_rnodes, pathVars, otherVars>>

\* text_uninit()
TextUninit ==
    /\ text_node.state \in {"initialized", "init_failed", "prepare_failed", "update_failed"}
    /\ \E r \in {ngli_text_reset(text_ctx, textures)} :
          /\ text_ctx' = r.s
          /\ textures' = r.textures
    /\ priv' = text_uninit(priv)
    /\ text_node' = NodeCall("uninitialized", "uninit", NGL_OK, FZero)
    /\ drawn' = NoDraw
    /\ text_rnodes' = <<>>
    /\ UNCHANGED <<have_textlibs, font_atlas, next_texture, call, prev_layout, rand_state, scratch_live, pathVars, otherVars>>

TextNextWith(effects_lists, texts, fails) ==
    \/ \E text \in texts, fg_color \in Colors, effects \in effects_lists :
          \E fail \in fails \cup {"bg_buffer", "element_tables", "create"} :
             TextInit(text, fg_color, effects, fail)
    \/ \E fail \in {"none", "push", "bg_pgcraft_create", "pgcraft_create"} : TextPrepare(fail)
    \/ \E text \in texts : SetText(text)
    \/ \E fg_color \in Colors : SetFgColor(fg_color)
    \/ \E ar \in AspectRatios : SetAspectRatio(ar)
    \/ \E t \in Times :
          \E ub \in (IF priv.live_changed \/ ResetOverlaps
                     THEN {"forward", "memmove"} ELSE {"memmove"}) : TextUpdate(t, "none", ub)
    \/ \E fail \in (IF priv.live_changed THEN fails \ {"none"} ELSE {}) :
          TextUpdate(FZero, fail, "memmove")
    \/ \E rn \in 1..MaxDescs : TextDraw(rn)
    \/ TextUninit

TextNext == TextNextWith(EffectLists, Texts, LayoutFails)
SegmentNext == TextNextWith(SegmentEffectLists, SegmentTexts, {"none", "element_positions"})

SpecText == TextInitState /\ [][TextNext]_vars
SpecTextSegments == TextInitState /\ [][SegmentNext]_vars

-----------------------------------------------------------------------------
(* The Path node (node_path.c). C arrays are sequences: index i of the code is
   index i + 1 here. Floats are exact rationals. *)

PATH_MODE_BEZIER3 == "bezier3"
PATH_MODE_CATMULL == "catmull"

DefaultPrecision == 64

NGLI_MIN(a, b) == IF a < b THEN a ELSE b
NGLI_MAX(a, b) == IF a > b THEN a ELSE b

\* ngli_vec3_length() of a vector that lies on one axis, where the euclidean
\* length is the absolute value of the one component that is not zero
ngli_vec3_length(vec) == FAdd(FAdd(FAbs(vec[1]), FAbs(vec[2])), FAbs(vec[3]))

\* interpolate_bezier3_vec3()
interpolate_bezier3_vec3(t, p0, p1, p2, p3) ==
    LET u  == FSub(FOne, t)
        f0 == FMul(FMul(u, u), u)
        f1 == FMul(FMul(FMul(FI(3), u), u), t)
        f2 == FMul(FMul(FMul(FI(3), u), t), t)
        f3 == FMul(FMul(t, t), t)
    IN [k \in 1..3 |->
           FAdd(FAdd(FAdd(FMul(f0, p0[k]), FMul(f1, p1[k])), FMul(f2, p2[k])),
                FMul(f3, p3[k]))]

\* one axis of poly_bezier3_vec3(): ((x[0] * t + x[1]) * t + x[2]) * t + x[3]
poly_bezier3(t, x) ==
    FAdd(FMul(FAdd(FMul(FAdd(FMul(x[1], t), x[2]), t), x[3]), t), x[4])

\* poly_bezier3_vec3()
poly_bezier3_vec3(t, x, y, z) == <<poly_bezier3(t, x), poly_bezier3(t, y), poly_bezier3(t, z)>>

\* update_lut(): sample j of the table. Segment i gives the samples
\* i * precision + k for k < precision, at t = k * time_scale; the last
\* segment gives one more sample at t = 1
update_lut_sample(p, c, nb_segments, precision, j) ==
    LET time_scale == FDiv(FOne, FI(precision))
        last == j = nb_segments * precision
        i == IF last THEN nb_segments - 1 ELSE j \div precision
        t == IF last THEN FOne ELSE FMul(FI(j % precision), time_scale)
    IN interpolate_bezier3_vec3(t, p[i + 1], c[2 * i + 1], c[2 * i + 2], p[i + 2])

\* update_lut(), for a precision above 0
update_lut(p, c, nb_segments, precision) ==
    [j \in 1..(nb_segments * precision + 1) |->
        update_lut_sample(p, c, nb_segments, precision, j - 1)]

\* update_arc_distances(): the length of the arc from sample i to sample i + 1
arc_length(lut, i) ==
    ngli_vec3_length(<<FSub(lut[i + 2][3], lut[i + 1][3]),
                       FSub(lut[i + 2][2], lut[i + 1][2]),
                       FSub(lut[i + 2][1], lut[i + 1][1])>>)

\* update_arc_distances(): total_length once the arcs a..(b - 1) are added to
\* it, the sum being split in halves to bound the depth of the evaluation
RECURSIVE arc_total_length(_, _, _)
arc_total_length(lut, a, b) ==
    IF b <= a THEN FZero
    ELSE IF b = a + 1 THEN arc_length(lut, a)
    ELSE LET m == (a + b) \div 2
         IN FAdd(arc_total_length(lut, a, m), arc_total_length(lut, m, b))

\* update_arc_distances(): the loop accumulating the arc lengths
arc_distances_loop(lut, lut_count) ==
    [i \in 1..lut_count |-> arc_total_length(lut, 0, i - 1)]

\* update_arc_distances(): the normalized distances of the distances
normalize_arc_distances(arc_distances, count) ==
    LET total_length == arc_distances[Len(arc_distances)]
        scale == IF total_length # FZero THEN FDiv(FOne, total_length) ELSE FZero
    IN [i \in 1..count |-> FMul(arc_distances[i], scale)]

\* update_arc_distances()
update_arc_distances(s) ==
    LET dst == arc_distances_loop(s.lut, s.lut_count)
    IN [s EXCEPT !.arc_distances = dst,
                 !.arc_distances_normalized =
                     normalize_arc_distances(dst, s.arc_distances_normalized_count)]

\* get_arc_from_dist(): the index at which the loop ends, by its break or by
\* its condition
get_arc_from_dist_end(distances, distance, arc_nb, start) ==
    LET breaks == {i \in start..(arc_nb - 1) : FGt(distances[i + 1], distance)}
    IN IF breaks = {} THEN NGLI_MAX(arc_nb, start)
       ELSE CHOOSE i \in breaks : \A j \in breaks : i <= j

\* get_arc_from_dist(): ret is the last index the loop went through, if any
get_arc_from_dist(distances, distance, arc_nb, start) ==
    LET end == get_arc_from_dist_end(distances, distance, arc_nb, start)
    IN IF end > start THEN end - 1 ELSE -1

\* distance_to_time(), from the arc found by the first scan
distance_to_time_arc(s, distance, arc_nb, first) ==
    LET distances == s.arc_distances_normalized
        found  == IF first < 0 THEN get_arc_from_dist(distances, distance, arc_nb, 0)
                  ELSE first
        arc_id == NGLI_MIN(NGLI_MAX(found, 0), arc_nb - 1)
        d0     == distances[arc_id + 1]
        d1     == distances[arc_id + 2]
        ratio  == NGLI_LINEAR_INTERP(d0, d1, distance)
        t0     == FDiv(FI(arc_id), FSub(FI(arc_nb), FOne))
        t1     == FDiv(FI(arc_id + 1), FSub(FI(arc_nb), FOne))
    IN [t |-> NGLI_MIX(t0, t1, ratio), current_pos |-> arc_id]

\* distance_to_time(). Result: [t, current_pos]
distance_to_time(s, distance) ==
    LET arc_nb == s.arc_distances_normalized_count - 1
    IN distance_to_time_arc(s, distance, arc_nb,
           get_arc_from_dist(s.arc_distances_normalized, distance, arc_nb, s.current_pos))

RECURSIVE get_knot_id_loop(_, _, _, _, _)
get_knot_id_loop(knots, nb_segments, i, t, ret) ==
    IF i >= nb_segments THEN ret
    ELSE IF FGt(knots[i + 1].start_time, t) THEN ret
    ELSE get_knot_id_loop(knots, nb_segments, i + 1, t, i)

\* get_knot_id()
get_knot_id(knots, nb_segments, start, t) == get_knot_id_loop(knots, nb_segments, start, t, -1)

\* ngli_path_evaluate(), from the time of the distance. Result: [ret, dst, s]
path_evaluate_at(s, d) ==
    LET nb_segments == s.nb_segments
        first   == get_knot_id(s.knots, nb_segments, s.current_knot, d.t)
        found   == IF first < 0 THEN get_knot_id(s.knots, nb_segments, 0, d.t) ELSE first
        knot_id == NGLI_MIN(NGLI_MAX(found, 0), nb_segments - 1)
        kn0     == s.knots[knot_id + 1]
        kn1     == s.knots[knot_id + 2]
        seg_t   == NGLI_LINEAR_INTERP(kn0.start_time, kn1.start_time, d.t)
    IN [ret |-> NGL_OK,
        dst |-> poly_bezier3_vec3(seg_t, kn0.poly_x, kn0.poly_y, kn0.poly_z),
        s   |-> [s EXCEPT !.current_pos = d.current_pos, !.current_knot = knot_id]]

\* ngli_path_evaluate()
ngli_path_evaluate(s, distance) == path_evaluate_at(s, distance_to_time(s, distance))

\* a conversion that drops the factor 3 of the linear coefficient
get_poly_from_bezier_mut(p0, p1, p2, p3) ==
    <<FAdd(FAdd(FAdd(FNeg(p0), FMul(FI(3), p1)), FMul(FI(-3), p2)), p3),
      FAdd(FAdd(FMul(FI(3), p0), FMul(FI(-6), p1)), FMul(FI(3), p2)),
      FAdd(FNeg(p0), p1),
      p0>>

\* get_poly_from_bezier()
get_poly_from_bezier(p0, p1, p2, p3) ==
    <<FAdd(FAdd(FAdd(FNeg(p0), FMul(FI(3), p1)), FMul(FI(-3), p2)), p3),
      FAdd(FAdd(FMul(FI(3), p0), FMul(FI(-6), p1)), FMul(FI(3), p2)),
      FAdd(FMul(FI(-3), p0), FMul(FI(3), p1)),
      p0>>

ZeroPoly == <<FZero, FZero, FZero, FZero>>

\* init_knots(): the first loop, which sets the start time of each knot and
\* moves current_pos. Result: [knots, current_pos]
RECURSIVE init_knots_times(_, _, _, _)
init_knots_times(s, n, i, knots) ==
    IF i >= n THEN [knots |-> knots, current_pos |-> s.current_pos]
    ELSE LET distance == s.arc_distances_normalized[i * s.precision + 1]
             d == distance_to_time(s, distance)
         IN init_knots_times([s EXCEPT !.current_pos = d.current_pos], n, i + 1,
                             Append(knots, d.t))

\* init_knots(): the knot i, with the polynomials of the second loop
init_knot(points, controls, n, start_times, i) ==
    IF i # n - 1
    THEN LET p0 == points[i + 1]
             p1 == controls[i * 2 + 1]
             p2 == controls[i * 2 + 2]
             p3 == points[i + 2]
         IN [start_time |-> start_times[i + 1], start_point |-> p0,
             start_control |-> p1, end_control |-> p2,
             poly_x |-> get_poly_from_bezier(p0[1], p1[1], p2[1], p3[1]),
             poly_y |-> get_poly_from_bezier(p0[2], p1[2], p2[2], p3[2]),
             poly_z |-> get_poly_from_bezier(p0[3], p1[3], p2[3], p3[3])]
    ELSE [start_time |-> start_times[i + 1], start_point |-> points[i + 1],
          start_control |-> <<>>, end_control |-> <<>>,
          poly_x |-> ZeroPoly, poly_y |-> ZeroPoly, poly_z |-> ZeroPoly]

\* init_knots(), from the result of its first loop
init_knots_polys(s, points, controls, n, r) ==
    [s EXCEPT !.knots = [i \in 1..n |-> init_knot(points, controls, n, r.knots, i - 1)],
              !.current_pos = r.current_pos,
              !.allocs = @ \cup {"knots"}]

\* init_knots(); oom makes the allocation fail. Result: [ret, s]
init_knots(s, points, controls, n, oom) ==
    IF oom THEN [ret |-> NGL_ERROR_MEMORY, s |-> s]
    ELSE [ret |-> NGL_OK,
          s |-> init_knots_polys(s, points, controls, n, init_knots_times(s, n, 0, <<>>))]

\* init_catmull_data(): the two controls derived for the pair of points i
catmull_cpoint(points_data, controls_data, control_pairs_count, scale, i) ==
    LET p0 == IF i = 0 THEN controls_data[1] ELSE points_data[i]
        p1 == points_data[i + 1]
        p2 == points_data[i + 2]
        p3 == IF i = control_pairs_count - 1 THEN controls_data[2] ELSE points_data[i + 3]
    IN <<[k \in 1..3 |-> FAdd(p1[k], FMul(FSub(p2[k], p0[k]), scale))],
         [k \in 1..3 |-> FSub(p2[k], FMul(FSub(p3[k], p1[k]), scale))]>>

\* init_catmull_data(); oom makes the allocation fail. Result: [ret, s]
init_catmull_data(s, oom) ==
    IF oom THEN [ret |-> NGL_ERROR_MEMORY, s |-> s]
    ELSE LET control_pairs_count == Len(s.points) - 1
             scale == FDiv(FOne, FMul(s.tension, FI(6)))
         IN [ret |-> NGL_OK,
             s |-> [s EXCEPT
                 !.catmull_controls =
                     [j \in 1..(control_pairs_count * 2) |->
                         catmull_cpoint(s.points, s.controls, control_pairs_count, scale,
                                        (j - 1) \div 2)[((j - 1) % 2) + 1]],
                 !.allocs = @ \cup {"catmull_controls"}]]

\* the parameters path_init() refuses
path_params_invalid(s) ==
    \/ s.tension = FZero
    \/ s.precision = 0
    \/ Len(s.points) < 2
    \/ s.mode = PATH_MODE_BEZIER3 /\ Len(s.controls) # (Len(s.points) - 1) * 2
    \/ s.mode = PATH_MODE_CATMULL /\ Len(s.controls) # 2

\* path_init(), after the three tables are allocated with at least one sample
path_init_tables(s, controls_data, fail) ==
    LET s1 == [s EXCEPT !.lut = update_lut(s.points, controls_data, s.nb_segments, s.precision)]
        r  == init_knots(update_arc_distances(s1), s.points, controls_data, Len(s.points),
                         fail = "knots")
    IN [ret |-> r.ret, s |-> r.s, alloc_failed |-> fail = "knots"]

\* path_init(), from the allocation of the tables on. A negative count makes
\* ngli_calloc() fail. With a count of 0 ngli_calloc() may return NULL or a
\* block of no byte; update_lut() and update_arc_distances() then write past
\* the block and init_knots() reads before it: the call crashes or goes on
\* with values that are not defined (ub: "null", "crash" or "garbage")
path_init_alloc(s, controls_data, fail, ub) ==
    LET count == s.nb_segments * s.precision + 1
        s1 == [s EXCEPT !.lut_count = count]
        s2 == [s1 EXCEPT !.allocs = @ \cup {"lut"}, !.arc_distances_count = count]
        s3 == [s2 EXCEPT !.allocs = @ \cup {"arc_distances"},
                         !.arc_distances_normalized_count = count]
        s4 == [s3 EXCEPT !.allocs = @ \cup {"arc_distances_normalized"}]
    IN IF fail = "lut" \/ count < 0 \/ (count = 0 /\ ub = "null")
       THEN [ret |-> NGL_ERROR_MEMORY, s |-> s1, alloc_failed |-> TRUE]
       ELSE IF fail = "arc_distances"
       THEN [ret |-> NGL_ERROR_MEMORY, s |-> s2, alloc_failed |-> TRUE]
       ELSE IF fail = "arc_distances_normalized"
       THEN [ret |-> NGL_ERROR_MEMORY, s |-> s3, alloc_failed |-> TRUE]
       ELSE IF count = 0
       THEN IF ub = "crash"
            THEN [ret |-> "SIGSEGV", s |-> s4, alloc_failed |-> FALSE]
            ELSE [ret |-> NGL_OK,
                  s |-> [s4 EXCEPT !.allocs = @ \cup {"knots"}, !.undefined = TRUE],
                  alloc_failed |-> FALSE]
       ELSE path_init_tables(s4, controls_data, fail)

\* path_init(), after the validation and the catmull controls
path_init_segments(r, fail, ub) ==
    IF r.ret # NGL_OK THEN [ret |-> r.ret, s |-> r.s, alloc_failed |-> TRUE]
    ELSE path_init_alloc([r.s EXCEPT !.nb_segments = Len(r.s.points) - 1],
                         IF r.s.mode = PATH_MODE_CATMULL THEN r.s.catmull_controls
                         ELSE r.s.controls,
                         fail, ub)

\* path_init(). Result: [ret, s, alloc_failed]
path_init(s, fail, ub) ==
    IF path_params_invalid(s)
    THEN [ret |-> NGL_ERROR_INVALID_ARG, s |-> s, alloc_failed |-> FALSE]
    ELSE path_init_segments(IF s.mode = PATH_MODE_CATMULL
                            THEN init_catmull_data(s, fail = "catmull_controls")
                            ELSE [ret |-> NGL_OK, s |-> s],
                            fail, ub)

\* path_uninit()
path_uninit(s) ==
    [s EXCEPT !.knots = <<>>, !.catmull_controls = <<>>, !.lut = <<>>,
              !.arc_distances = <<>>, !.arc_distances_normalized = <<>>,
              !.allocs = {}]

-----------------------------------------------------------------------------
(* The Path node driven by the node framework and by its users *)

MaxPoints == 3
MaxCoord == 1
MaxPrecision == 3

\* the points of the x axis
PathPoint(x) == <<x, FZero, FZero>>

RECURSIVE PointsUpTo(_)
PointsUpTo(n) ==
    IF n = 0 THEN {<<>>}
    ELSE LET S == PointsUpTo(n - 1)
         IN S \cup {Append(p, PathPoint(FI(x))) : p \in {q \in S : Len(q) = n - 1},
                                                  x \in 0..MaxCoord}

\* a path that comes back to its first anchor and ends with that anchor
\* repeated: its last segment has no length
StalledEndPoints ==
    <<PathPoint(FZero), PathPoint(FOne), PathPoint(FZero), PathPoint(FZero)>>

\* the anchor lists given to the Path node
PathPointLists == PointsUpTo(MaxPoints) \cup {StalledEndPoints}

\* the bezier controls that make each segment a straight line walked at
\* constant speed: at one third and at two thirds of the segment
ThirdsControls(points) ==
    [j \in 1..(2 * (Len(points) - 1)) |->
        LET i  == (j + 1) \div 2
            p0 == points[i][1]
            p3 == points[i + 1][1]
        IN PathPoint(FAdd(p0, FMul(F(2 - (j % 2), 3), FSub(p3, p0))))]

\* the bezier controls that sit on the anchors of their segment
AnchorControls(points) ==
    [j \in 1..(2 * (Len(points) - 1)) |-> points[(j + 1) \div 2 + (1 - (j % 2))]]

\* the controls given with the points: of the count the mode asks for, or one short
PathControls(points, mode) ==
    IF Len(points) < 2 THEN {<<>>}
    ELSE IF mode = PATH_MODE_BEZIER3
    THEN {ThirdsControls(points), AnchorControls(points),
          SubSeq(ThirdsControls(points), 1, 2 * (Len(points) - 1) - 1)}
    ELSE {<<points[1], points[Len(points)]>>, <<points[1]>>}

\* the default precision is explored on straight bezier paths
PathPrecisions(points, controls, mode) ==
    (-1..MaxPrecision) \cup
        (IF /\ mode = PATH_MODE_BEZIER3 /\ Len(points) >= 2
            /\ controls = ThirdsControls(points)
         THEN {DefaultPrecision} ELSE {})

PathTensions == {FZero, F(1, 2)}

PathFails ==
    {"none", "catmull_controls", "lut", "arc_distances", "arc_distances_normalized", "knots"}

PathDistances == {FZero, F(1, 4), F(1, 2), F(3, 4), FOne}

\* the private data of a Path node: zeroed, then the parameters
NewPath(points, controls, mode, precision, tension) ==
    [points |-> points, controls |-> controls, mode |-> mode,
     precision |-> precision, tension |-> tension,
     knots |-> <<>>, catmull_controls |-> <<>>, lut |-> <<>>, lut_count |-> 0,
     arc_distances |-> <<>>, arc_distances_count |-> 0,
     arc_distances_normalized |-> <<>>, arc_distances_normalized_count |-> 0,
     nb_segments |-> 0, current_pos |-> 0, current_knot |-> 0,
     allocs |-> {}, undefined |-> FALSE]

NoVec == <<>>

PathCall(state, op, ret, alloc_failed, distance, dst, hint_pos, hint_knot) ==
    [state |-> state, op |-> op, ret |-> ret, alloc_failed |-> alloc_failed,
     distance |-> distance, dst |-> dst, hint_pos |-> hint_pos, hint_knot |-> hint_knot]

PathInitState ==
    /\ have_textlibs = FALSE
    /\ font_atlas = NULL
    /\ textures = <<>>
    /\ next_texture = 1
    /\ text_ctx = ZeroText
    /\ call = [op |-> "none", str |-> <<>>, ret |-> NGL_OK]
    /\ prev_layout = NoLayout
    /\ priv = <<>>
    /\ text_node = <<>>
    /\ rand_state = 0
    /\ scratch_live = 0
    /\ text_rnodes = <<>>
    /\ drawn = <<>>
    /\ path_priv = NewPath(<<>>, <<>>, PATH_MODE_BEZIER3, DefaultPrecision, F(1, 2))
    /\ path_node = PathCall("created", "none", NGL_OK, FALSE, FZero, NoVec, 0, 0)
    /\ OtherIdle

\* path_init() of a new node with its parameters
PathInit(points, controls, mode, precision, tension, fail, ub) ==
    /\ path_node.state = "created"
    /\ \E r \in {path_init(NewPath(points, controls, mode, precision, tension), fail, ub)} :
          /\ path_priv' = r.s
          /\ path_node' = PathCall(IF r.ret = NGL_OK
                                   THEN (IF r.s.undefined THEN "undefined" ELSE "initialized")
                                   ELSE IF r.ret = "SIGSEGV" THEN "crashed" ELSE "init_failed",
                                   "init", r.ret, r.alloc_failed, FZero, NoVec, 0, 0)
    /\ UNCHANGED <<backendVars, textVars, otherVars>>

\* ngli_path_evaluate(distance), called by the nodes that follow the path
PathEvaluate(distance) ==
    /\ path_node.state = "initialized"
    /\ \E r \in {ngli_path_evaluate(path_priv, distance)} :
          /\ path_priv' = r.s
          /\ path_node' = PathCall("initialized", "evaluate", r.ret, FALSE, distance, r.dst,
                                   path_priv.current_pos, path_priv.current_knot)
    /\ UNCHANGED <<backendVars, textVars, otherVars>>

\* path_uninit()
PathUninit ==
    /\ path_node.state \in {"initialized", "undefined", "init_failed"}
    /\ path_priv' = path_uninit(path_priv)
    /\ path_node' = PathCall("uninitialized", "uninit", NGL_OK, FALSE, FZero, NoVec, 0, 0)
    /\ UNCHANGED <<backendVars, textVars, otherVars>>

\* the failures and the outcomes that can differ for the parameters
PathInitFails(s) ==
    IF path_params_invalid(s) THEN {"none"}
    ELSE IF s.mode = PATH_MODE_CATMULL THEN PathFails ELSE PathFails \ {"catmull_controls"}

PathInitOutcomes(s) ==
    IF ~path_params_invalid(s) /\ (Len(s.points) - 1) * s.precision + 1 = 0
    THEN {"null", "crash", "garbage"} ELSE {"garbage"}

PathNext ==
    \/ \E points \in PathPointLists, mode \in {PATH_MODE_BEZIER3, PATH_MODE_CATMULL},
          tension \in PathTensions :
          \E controls \in PathControls(points, mode) :
             \E precision \in PathPrecisions(points, controls, mode) :
                \E fail \in PathInitFails(NewPath(points, controls, mode, precision, tension)),
                   ub \in PathInitOutcomes(NewPath(points, controls, mode, precision, tension)) :
                   PathInit(points, controls, mode, precision, tension, fail, ub)
    \/ \E distance \in PathDistances : PathEvaluate(distance)
    \/ PathUninit

SpecPath == PathInitState /\ [][PathNext]_vars

-----------------------------------------------------------------------------
(* The nodes and the backend at rest, for the specifications of the other nodes *)

BackendIdle ==
    /\ have_textlibs = FALSE
    /\ font_atlas = NULL
    /\ textures = <<>>
    /\ next_texture = 1
    /\ text_ctx = ZeroText
    /\ call = [op |-> "none", str |-> <<>>, ret |-> NGL_OK]
    /\ prev_layout = NoLayout

TextIdle ==
    /\ priv = <<>>
    /\ text_node = <<>>
    /\ rand_state = 0
    /\ scratch_live = 0
    /\ text_rnodes = <<>>
    /\ drawn = <<>>

PathIdle == path_priv = <<>> /\ path_node = <<>>

-----------------------------------------------------------------------------
(* Wide naturals: sequences of 12-bit limbs, least significant first, without *)
(* leading zero limbs. They carry the 64-bit words of the Noise node and the  *)
(* exact products and quotients of the root finder's floats.                  *)

LimbBase == 2 ^ 12

RECURSIVE NTrim(_)
NTrim(a) ==
    IF a = <<>> THEN a
    ELSE IF a[Len(a)] = 0 THEN NTrim(SubSeq(a, 1, Len(a) - 1))
    ELSE a

RECURSIVE NFromInt(_)
NFromInt(n) == IF n = 0 THEN <<>> ELSE <<n % LimbBase>> \o NFromInt(n \div LimbBase)

RECURSIVE NToInt(_)
NToInt(a) == IF a = <<>> THEN 0 ELSE a[1] + LimbBase * NToInt(Tail(a))

NLimb(a, i) == IF i >= 1 /\ i <= Len(a) THEN a[i] ELSE 0

RECURSIVE NAddCarry(_, _, _, _)
NAddCarry(a, b, i, c) ==
    IF i > Max(Len(a), Len(b)) THEN (IF c = 0 THEN <<>> ELSE <<c>>)
    ELSE LET s == NLimb(a, i) + NLimb(b, i) + c
         IN <<s % LimbBase>> \o NAddCarry(a, b, i + 1, s \div LimbBase)

NAdd(a, b) == NAddCarry(a, b, 1, 0)

RECURSIVE NSubBorrow(_, _, _, _)
NSubBorrow(a, b, i, c) ==
    IF i > Len(a) THEN <<>>
    ELSE LET d == a[i] - NLimb(b, i) - c
         IN IF d < 0 THEN <<d + LimbBase>> \o NSubBorrow(a, b, i + 1, 1)
            ELSE <<d>> \o NSubBorrow(a, b, i + 1, 0)

\* a - b for a >= b
NSub(a, b) == NTrim(NSubBorrow(a, b, 1, 0))

\* -1, 0 or 1 as a < b, a = b or a > b
NCmp(a, b) ==
    IF Len(a) # Len(b) THEN (IF Len(a) < Len(b) THEN -1 ELSE 1)
    ELSE LET D == {i \in 1..Len(a) : a[i] # b[i]}
         IN IF D = {} THEN 0
            ELSE LET k == CHOOSE i \in D : \A j \in D : j <= i
                 IN IF a[k] < b[k] THEN -1 ELSE 1

RECURSIVE NMulLimb(_, _, _, _)
NMulLimb(a, k, i, c) ==
    IF i > Len(a) THEN (IF c = 0 THEN <<>> ELSE <<c>>)
    ELSE LET s == a[i] * k + c
         IN <<s % LimbBase>> \o NMulLimb(a, k, i + 1, s \div LimbBase)

\* a * k for 0 <= k < LimbBase
NMulSmall(a, k) == NTrim(NMulLimb(a, k, 1, 0))

NShlLimbs(a, n) == IF a = <<>> THEN a ELSE [i \in 1..n |-> 0] \o a

RECURSIVE NMulFrom(_, _, _)
NMulFrom(a, b, j) ==
    IF j > Len(b) THEN <<>>
    ELSE NAdd(NShlLimbs(NMulSmall(a, b[j]), j - 1), NMulFrom(a, b, j + 1))

NMul(a, b) == NMulFrom(a, b, 1)

\* a * 2^bits
NShl(a, bits) == NShlLimbs(NMulSmall(a, 2 ^ (bits % 12)), bits \div 12)

\* a \div 2^bits
NShr(a, bits) ==
    LET q  == bits \div 12
        r  == bits % 12
        hi == IF q >= Len(a) THEN <<>> ELSE SubSeq(a, q + 1, Len(a))
    IN NTrim([i \in 1..Len(hi) |->
                 (hi[i] \div (2 ^ r)) + (NLimb(hi, i + 1) % (2 ^ r)) * (2 ^ (12 - r))])

\* a % 2^bits
NLowBits(a, bits) == NSub(a, NShl(NShr(a, bits), bits))

\* the number of bits of a: 0 for 0
NBitLen(a) ==
    IF a = <<>> THEN 0
    ELSE 12 * (Len(a) - 1)
         + (CHOOSE k \in 1..12 : 2 ^ (k - 1) <= a[Len(a)] /\ a[Len(a)] < 2 ^ k)

RECURSIVE XorInt(_, _)
XorInt(a, b) ==
    IF a = 0 THEN b ELSE IF b = 0 THEN a
    ELSE ((a + b) % 2) + 2 * XorInt(a \div 2, b \div 2)

\* a ^ b
NXor(a, b) == NTrim([i \in 1..Max(Len(a), Len(b)) |-> XorInt(NLimb(a, i), NLimb(b, i))])

\* three hexadecimal digits, one limb
Hex3(a, b, c) == (a * 16 + b) * 16 + c

-----------------------------------------------------------------------------
(* Noise node (node_noise.c) *)

NOISE_CUBIC   == "cubic"
NOISE_QUINTIC == "quintic"

\* the part of the 52-bit mantissa of rand_u64_to_f64() the slopes keep
SlopeBits == 4

\* uint64_t arithmetic
U64(a) == NLowBits(a, 64)

\* UINT64_C(0x2545F4914F6CDD1D)
hash_multiplier ==
    <<Hex3(13, 1, 13), Hex3(6, 12, 13), Hex3(1, 4, 15), Hex3(15, 4, 9), Hex3(5, 4, 5), Hex3(0, 0, 2)>>

\* hash(): xorshift64s
hash(x) ==
    LET x1 == NXor(x, NShr(x, 12))
        x2 == NXor(x1, U64(NShl(x1, 25)))
        x3 == NXor(x2, NShr(x2, 27))
    IN U64(NMul(x3, hash_multiplier))

\* rand_u64_to_f64(): the double 1.m - 1.0 whose mantissa m is x >> 12, a value
\* of [0;1); its first SlopeBits bits are kept
rand_u64_to_f64(x) == F(NToInt(NShr(x, 64 - SlopeBits)), 2 ^ SlopeBits)

\* floorf() of a finite value
floorf(v) == v[1] \div v[2]

curve_cubic(t) ==
    LET t3 == FMul(FMul(t, t), t)
    IN FMul(FAdd(FMul(FSub(FMul(FI(6), t), FI(15)), t), FI(10)), t3)

curve_quintic(t) == FMul(FMul(FSub(FI(3), FMul(FI(2), t)), t), t)

\* interp_func_map[]
interp_func_map(function) ==
    IF function = NOISE_CUBIC THEN "curve_cubic" ELSE "curve_quintic"

\* a call through s->interp_func
interp_func(func, t) == IF func = "curve_cubic" THEN curve_cubic(t) ELSE curve_quintic(t)

\* noise(): v is not negative
noise(s, v) ==
    LET i  == floorf(v)
        f  == FSub(v, FI(i))
        x  == U64(NAdd(NFromInt(i), NFromInt(s.seed)))
        s0 == FSub(FMul(rand_u64_to_f64(hash(x)), FI(2)), FOne)
        s1 == FSub(FMul(rand_u64_to_f64(hash(U64(NAdd(x, NFromInt(1))))), FI(2)), FOne)
        v0 == FMul(f, s0)
        v1 == FMul(FSub(FOne, f), s1)
        t  == interp_func(s.interp_func, f)
        r  == NGLI_MIX(v0, v1, t)
    IN FMul(r, FI(2))

\* noise_update(): the loop over the octaves, acc = [sum, max_amp, freq, amp]
RECURSIVE noise_update_loop(_, _, _, _)
noise_update_loop(s, t, i, acc) ==
    IF i >= s.octaves THEN acc
    ELSE noise_update_loop(s, t, i + 1,
            [sum     |-> FAdd(acc.sum, FMul(noise(s, FMul(t, acc.freq)), acc.amp)),
             max_amp |-> FAdd(acc.max_amp, acc.amp),
             freq    |-> FMul(acc.freq, s.lacunarity),
             amp     |-> FMul(acc.amp, s.gain)])

\* noise_update(). Result: [s, sum, max_amp]
noise_update(s, t) ==
    LET acc == noise_update_loop(s, t, 0,
                   [sum |-> FZero, max_amp |-> FZero, freq |-> FOne, amp |-> FOne])
    IN [s |-> [s EXCEPT !.scalar = FDiv(acc.sum, acc.max_amp)],
        sum |-> acc.sum, max_amp |-> acc.max_amp]

\* noise_init()
noise_init(s) == [s EXCEPT !.interp_func = interp_func_map(s.function)]

-----------------------------------------------------------------------------
(* The Noise node driven by the node framework *)

MaxOctaves == 3

\* "Prng", the default seed
DefaultSeed == ((80 * 256 + 114) * 256 + 110) * 256 + 103

NoiseOctaves == 0..MaxOctaves
NoiseLacunarities == {FI(2), FOne}
NoiseGains == {F(1, 2), FOne, FI(-1)}
NoiseSeeds == {DefaultSeed, 0}
NoiseFunctions == {NOISE_CUBIC, NOISE_QUINTIC}
NoiseTimes == {FZero, F(1, 4), F(1, 2), F(5, 4)}

\* the private data of a Noise node: zeroed, then the parameters
NewNoise(octaves, lacunarity, gain, seed, function) ==
    [octaves |-> octaves, lacunarity |-> lacunarity, gain |-> gain, seed |-> seed,
     function |-> function, interp_func |-> NULL, scalar |-> FZero]

NoiseCall(state, op, t, sum, max_amp) ==
    [state |-> state, op |-> op, t |-> t, sum |-> sum, max_amp |-> max_amp]

NoiseInitState ==
    /\ BackendIdle /\ TextIdle /\ PathIdle
    /\ RootsIdle /\ SkewIdle /\ WindowIdle /\ PathDrawIdle
    /\ noise_priv = NewNoise(3, FI(2), F(1, 2), DefaultSeed, NOISE_QUINTIC)
    /\ noise_node = NoiseCall("created", "none", FZero, FZero, FZero)

notNoise == <<backendVars, textVars, pathVars, rootsVars, skewVars, windowVars, pathdrawVars>>

\* noise_init() of a new node with its parameters
NoiseInit(octaves, lacunarity, gain, seed, function) ==
    /\ noise_node.state = "created"
    /\ noise_priv' = noise_init(NewNoise(octaves, lacunarity, gain, seed, function))
    /\ noise_node' = NoiseCall("initialized", "init", FZero, FZero, FZero)
    /\ UNCHANGED notNoise

\* a live change of octaves, lacunarity and gain: the framework writes the fields
NoiseSetParam(octaves, lacunarity, gain) ==
    /\ noise_node.state = "initialized"
    /\ noise_priv' = [noise_priv EXCEPT !.octaves = octaves, !.lacunarity = lacunarity,
                                        !.gain = gain]
    /\ noise_node' = NoiseCall("initialized", "set_param", FZero, FZero, FZero)
    /\ UNCHANGED notNoise

\* noise_update(node, t)
NoiseUpdate(t) ==
    /\ noise_node.state = "initialized"
    /\ \E r \in {noise_update(noise_priv, t)} :
          /\ noise_priv' = r.s
          /\ noise_node' = NoiseCall("initialized", "update", t, r.sum, r.max_amp)
    /\ UNCHANGED notNoise

NoiseNext ==
    \/ \E octaves \in NoiseOctaves, lacunarity \in NoiseLacunarities, gain \in NoiseGains,
          seed \in NoiseSeeds, function \in NoiseFunctions :
          NoiseInit(octaves, lacunarity, gain, seed, function)
    \/ \E octaves \in NoiseOctaves, lacunarity \in NoiseLacunarities, gain \in NoiseGains :
          NoiseSetParam(octaves, lacunarity, gain)
    \/ \E t \in NoiseTimes : NoiseUpdate(t)

SpecNoise == NoiseInitState /\ [][NoiseNext]_vars

-----------------------------------------------------------------------------
(* Wide naturals as functions, for the float arithmetic of the root finder:   *)
(* applying a function evaluates its arguments once.  The carries of a sum or  *)
(* product are resolved from column sums, each below 2^28.  <<>> \o f is the  *)
(* function f of domain 1..n as a sequence.                                   *)

\* the element of a one-element set
Only(S) == CHOOSE x \in S : TRUE

\* a without its leading zero limbs
WideTrim[a \in Seq(Nat)] ==
    SubSeq(a, 1, CHOOSE k \in 0..Len(a) :
                     (k = 0 \/ a[k] # 0) /\ \A j \in (k + 1)..Len(a) : a[j] = 0)

\* for 0 <= n < 2^31
WideFromInt[n \in Nat] ==
    WideTrim[<<n % LimbBase, (n \div LimbBase) % LimbBase, n \div (LimbBase * LimbBase)>>]

\* for a < 2^31
WideToInt[a \in Seq(Nat)] == NLimb(a, 1) + LimbBase * (NLimb(a, 2) + LimbBase * NLimb(a, 3))

\* the carry into limb i of the column sums cols
WideCarry[cols \in Seq(Nat), i \in Nat] ==
    IF i <= 1 THEN 0 ELSE (NLimb(cols, i - 1) + WideCarry[cols, i - 1]) \div LimbBase

\* the wide natural with column sums cols
WideNorm[cols \in Seq(Nat)] ==
    WideTrim[<<>> \o [i \in 1..(Len(cols) + 2) |-> (NLimb(cols, i) + WideCarry[cols, i]) % LimbBase]]

\* a * n for 0 <= n < 2^31
WideMulInt[a \in Seq(Nat), n \in Nat] ==
    WideNorm[<<>> \o [k \in 1..(Len(a) + 2) |->
                 NLimb(a, k) * (n % LimbBase)
                 + NLimb(a, k - 1) * ((n \div LimbBase) % LimbBase)
                 + NLimb(a, k - 2) * (n \div (LimbBase * LimbBase))]]

\* r^n for r < 2^27
WidePow[r \in Nat, n \in Nat] == IF n = 0 THEN <<1>> ELSE WideMulInt[WidePow[r, n - 1], r]

\* a * LimbBase^q
WideShlLimbs[a \in Seq(Nat), q \in Nat] == IF a = <<>> THEN a ELSE [i \in 1..q |-> 0] \o a

\* a * 2^bits
WideShl[a \in Seq(Nat), bits \in Nat] ==
    WideShlLimbs[WideMulInt[a, 2 ^ (bits % 12)], bits \div 12]

\* a \div 2^(12 * q + r), r < 12
WideShrBy[a \in Seq(Nat), q \in Nat, r \in Nat] ==
    WideTrim[<<>> \o [i \in 1..(Len(a) - q) |->
                 (a[q + i] \div (2 ^ r)) + (NLimb(a, q + i + 1) % (2 ^ r)) * (2 ^ (12 - r))]]

\* a \div 2^bits
WideShr[a \in Seq(Nat), bits \in Nat] == WideShrBy[a, bits \div 12, bits % 12]

\* a % 2^bits
WideLowBits[a \in Seq(Nat), bits \in Nat] ==
    WideTrim[<<>> \o [i \in 1..Min(Len(a), (bits \div 12) + 1) |->
                 IF i <= bits \div 12 THEN a[i] ELSE a[i] % (2 ^ (bits % 12))]]

\* the number of bits of a: 0 for 0
WideBitLen[a \in Seq(Nat)] ==
    IF a = <<>> THEN 0
    ELSE 12 * (Len(a) - 1)
         + (CHOOSE k \in 1..12 : 2 ^ (k - 1) <= a[Len(a)] /\ a[Len(a)] < 2 ^ k)

\* -1, 0 or 1 as a < b, a = b or a > b
WideCmp[a \in Seq(Nat), b \in Seq(Nat)] ==
    IF Len(a) # Len(b) THEN (IF Len(a) < Len(b) THEN -1 ELSE 1)
    ELSE IF a = b THEN 0
    ELSE IF \E i \in 1..Len(a) : a[i] < b[i] /\ \A j \in (i + 1)..Len(a) : a[j] = b[j] THEN -1
    ELSE 1

\* the borrow from limb i of a - b
WideBorrow[a \in Seq(Nat), b \in Seq(Nat), i \in Nat] ==
    IF i <= 1 THEN 0
    ELSE IF a[i - 1] - NLimb(b, i - 1) - WideBorrow[a, b, i - 1] < 0 THEN 1 ELSE 0

\* a - b for a >= b
WideSub[a \in Seq(Nat), b \in Seq(Nat)] ==
    WideTrim[<<>> \o [i \in 1..Len(a) |->
                 (a[i] - NLimb(b, i) - WideBorrow[a, b, i] + LimbBase) % LimbBase]]

-----------------------------------------------------------------------------
(* IEEE-754 binary32 arithmetic (the C type float of root_finder.c).  A value *)
(* is (-1)^s * m * 2^e with m = 0 or 2^23 <= m < 2^24; every operation        *)
(* rounds its exact result to nearest, ties to even.  The exponent range is   *)
(* not bounded: the polynomials drawn stay far from overflow and underflow.   *)
(* The functions of the C library that IEEE-754 does not pin down (cbrtf,      *)
(* powf, acosf, cosf) deviate from the rounded mathematical value by          *)
(* libm_ulps units in the last place, an input of the call.                   *)
(* The operations are functions: applying one evaluates its arguments once.   *)

libm_ulps == roots_call.libm

F32Set == [k : {"num", "inf", "nan"}, s : {0, 1}, m : Nat, e : Int]

F32Nan     == [k |-> "nan", s |-> 0, m |-> 0, e |-> 0]
F32Inf(s)  == [k |-> "inf", s |-> s, m |-> 0, e |-> 0]
F32Zero(s) == [k |-> "num", s |-> s, m |-> 0, e |-> 0]
F32Num(s, m, e) == [k |-> "num", s |-> s, m |-> m, e |-> e]

isnan(x)     == x.k = "nan"
F32IsNum(x)  == x.k = "num"
F32IsZero(x) == x.k = "num" /\ x.m = 0

\* the number of bits of 0 <= v < 2^30: 0 for 0
BitLen[v \in Nat] ==
    IF v < 2 ^ 15
    THEN CHOOSE k \in 0..15 : v < 2 ^ k /\ (k = 0 \/ v >= 2 ^ (k - 1))
    ELSE CHOOSE k \in 16..30 : v < 2 ^ k /\ v >= 2 ^ (k - 1)

\* the largest r = r0 + (digits d and below, three bits each) with Fits(r), for a
\* decreasing Fits that holds of r0
RECURSIVE LargestDigits(_, _, _)
LargestDigits(Fits(_), d, r0) ==
    IF d < 0 THEN r0
    ELSE Only({LargestDigits(Fits, d - 1,
                   IF Fits(r + 4 * u)
                   THEN (IF Fits(r + 6 * u) THEN (IF Fits(r + 7 * u) THEN r + 7 * u ELSE r + 6 * u)
                         ELSE (IF Fits(r + 5 * u) THEN r + 5 * u ELSE r + 4 * u))
                   ELSE (IF Fits(r + 2 * u) THEN (IF Fits(r + 3 * u) THEN r + 3 * u ELSE r + 2 * u)
                         ELSE (IF Fits(r + u) THEN r + u ELSE r))) :
                  r \in {r0}, u \in {2 ^ (3 * d)}})

\* q rounded up when the bits dropped, rem of width n and then st in {0, 1} for
\* anything non-zero below them, exceed half a unit, or make half and q is odd
F32RoundUp[s \in {0, 1}, q \in Nat, rem \in Nat, st \in {0, 1}, n \in Nat, e \in Int] ==
    IF rem * 2 + st > 2 ^ n \/ (rem * 2 + st = 2 ^ n /\ q % 2 = 1)
    THEN (IF q + 1 = 2 ^ 24 THEN F32Num(s, 2 ^ 23, e + 1) ELSE F32Num(s, q + 1, e))
    ELSE F32Num(s, q, e)

\* F32RoundHL for hi of n > 0 bits
F32RoundBits[s \in {0, 1}, hi \in Nat, lo \in Nat, st \in {0, 1}, e \in Int, n \in Nat] ==
    IF n <= 24
    THEN F32RoundUp[s, hi * 2 ^ (24 - n) + (lo \div 2 ^ n), lo % 2 ^ n, st, n, e + n]
    ELSE F32RoundUp[s, hi \div 2 ^ (n - 24), hi % 2 ^ (n - 24),
                    IF lo = 0 /\ st = 0 THEN 0 ELSE 1, n - 24, e + n]

\* the float nearest to (-1)^s * (hi * 2^24 + lo + a fraction) * 2^e, for
\* 0 <= hi < 2^30 and 0 <= lo < 2^24; the fraction is zero when st = 0, else in
\* (0, 1) and hi > 0.  Ties go to the even mantissa.
F32RoundHL[s \in {0, 1}, hi \in Nat, lo \in Nat, st \in {0, 1}, e \in Int] ==
    IF hi # 0 THEN F32RoundBits[s, hi, lo, st, e, BitLen[hi]]
    ELSE IF lo = 0 THEN F32Zero(s)
    ELSE F32Num(s, lo * 2 ^ (24 - BitLen[lo]), e - (24 - BitLen[lo]))

\* F32Round for W of n bits
F32RoundWide[s \in {0, 1}, W \in Seq(Nat), e \in Int, n \in Nat] ==
    IF n <= 48 THEN F32RoundHL[s, WideToInt[WideShr[W, 24]], WideToInt[WideLowBits[W, 24]], 0, e]
    ELSE F32RoundHL[s, WideToInt[WideShr[W, n - 24]], WideToInt[WideLowBits[WideShr[W, n - 48], 24]],
                    IF WideLowBits[W, n - 48] = <<>> THEN 0 ELSE 1, e + (n - 48)]

\* the float nearest to (-1)^s * W * 2^e, W a wide natural
F32Round[s \in {0, 1}, W \in Seq(Nat), e \in Int] == F32RoundWide[s, W, e, WideBitLen[W]]

\* an integer literal such as 3.f, |n| < 2^24
F32FromInt[n \in Int] == F32RoundHL[IF n < 0 THEN 1 ELSE 0, 0, IF n < 0 THEN -n ELSE n, 0, 0]

\* n * 2^e for |n| <= 2^24
F32Dyadic[n \in Int, e \in Int] ==
    F32RoundHL[IF n < 0 THEN 1 ELSE 0, (IF n < 0 THEN -n ELSE n) \div 2 ^ 24,
               (IF n < 0 THEN -n ELSE n) % 2 ^ 24, 0, e]

F32Neg[x \in F32Set] == IF isnan(x) THEN x ELSE [x EXCEPT !.s = 1 - x.s]

fabsf[x \in F32Set] == IF isnan(x) THEN x ELSE [x EXCEPT !.s = 0]

\* hi * 2^24 + lo for a middle part mid * 2^12 and a low part
CarryHL[top \in Nat, mid \in Nat, low \in Nat] ==
    <<top + (mid \div 4096) + (((mid % 4096) * 4096 + low) \div 2 ^ 24),
      ((mid % 4096) * 4096 + low) % 2 ^ 24>>

\* the product of two numbers below 2^27 with 12 low bits x0, y0 and the
\* rest x1, y1, as <<hi, lo>> with the product equal to hi * 2^24 + lo
MulHL[x \in Nat, y \in Nat] ==
    CarryHL[(x \div 4096) * (y \div 4096),
            (x \div 4096) * (y % 4096) + (x % 4096) * (y \div 4096),
            (x % 4096) * (y % 4096)]

\* F32RoundHL of a pair
F32RoundPair[s \in {0, 1}, P \in Seq(Nat), st \in {0, 1}, e \in Int] ==
    F32RoundHL[s, P[1], P[2], st, e]

\* a product or quotient with an operand that is not a non-zero number
F32MulSpecial[x \in F32Set, y \in F32Set] ==
    IF isnan(x) \/ isnan(y) THEN F32Nan
    ELSE IF x.k = "inf" \/ y.k = "inf"
         THEN (IF F32IsZero(x) \/ F32IsZero(y) THEN F32Nan ELSE F32Inf((x.s + y.s) % 2))
    ELSE F32Zero((x.s + y.s) % 2)

F32Mul[x \in F32Set, y \in F32Set] ==
    IF x.m # 0 /\ y.m # 0 THEN F32RoundPair[(x.s + y.s) % 2, MulHL[x.m, y.m], 0, x.e + y.e]
    ELSE F32MulSpecial[x, y]

\* F32RoundHL of a sign and a pair
F32RoundParts[P \in Seq(Nat), e \in Int] == F32RoundHL[P[1], P[2], P[3], 0, e]

\* hi + lo for non-zero numbers with hi.e - lo.e = d in 0..26, as <<s, h, l>>: the
\* sum is (-1)^s * (h * 2^24 + l) * 2^lo.e
F32AddParts[hi \in F32Set, lo \in F32Set, d \in Nat] ==
    IF hi.s = lo.s
    THEN (IF d <= 24
          THEN <<hi.s>> \o CarryHL[hi.m \div 2 ^ (24 - d), 0,
                                   (hi.m % 2 ^ (24 - d)) * 2 ^ d + lo.m]
          ELSE <<hi.s, hi.m * 2 ^ (d - 24), lo.m>>)
    ELSE IF d > 24 THEN <<hi.s, hi.m * 2 ^ (d - 24) - 1, 2 ^ 24 - lo.m>>
    ELSE IF d = 0 /\ hi.m = lo.m THEN <<0, 0, 0>>
    ELSE IF d = 0 /\ hi.m < lo.m THEN <<lo.s, 0, lo.m - hi.m>>
    ELSE IF (hi.m % 2 ^ (24 - d)) * 2 ^ d >= lo.m
    THEN <<hi.s, hi.m \div 2 ^ (24 - d), (hi.m % 2 ^ (24 - d)) * 2 ^ d - lo.m>>
    ELSE <<hi.s, (hi.m \div 2 ^ (24 - d)) - 1,
           (hi.m % 2 ^ (24 - d)) * 2 ^ d + 2 ^ 24 - lo.m>>

\* the sum of two non-zero numbers, hi.e >= lo.e.  Past 26 binary places the
\* smaller one is below a quarter of the spacing of floats around hi.
F32AddAligned[hi \in F32Set, lo \in F32Set] ==
    IF hi.e - lo.e > 26 THEN hi
    ELSE F32RoundParts[F32AddParts[hi, lo, hi.e - lo.e], lo.e]

\* a sum with an operand that is not a non-zero number
F32AddSpecial[x \in F32Set, y \in F32Set] ==
    IF isnan(x) \/ isnan(y) THEN F32Nan
    ELSE IF x.k = "inf" /\ y.k = "inf" THEN (IF x.s = y.s THEN x ELSE F32Nan)
    ELSE IF x.k = "inf" THEN x
    ELSE IF y.k = "inf" THEN y
    ELSE IF x.m = 0 /\ y.m = 0 THEN F32Zero(IF x.s = 1 /\ y.s = 1 THEN 1 ELSE 0)
    ELSE IF x.m = 0 THEN y
    ELSE x

F32Add[x \in F32Set, y \in F32Set] ==
    IF x.m = 0 \/ y.m = 0 THEN F32AddSpecial[x, y]
    ELSE F32AddAligned[IF x.e >= y.e THEN x ELSE y, IF x.e >= y.e THEN y ELSE x]

F32Sub[x \in F32Set, y \in F32Set] == F32Add[x, F32Neg[y]]

\* the remainder of x * 2^(7k) by y, for y < 2^24
DivRem[x \in Nat, y \in Nat, k \in Nat] == IF k = 0 THEN x % y ELSE (DivRem[x, y, k - 1] * 128) % y

\* the k-th group of seven bits of the quotient of x by y
DivDigit[x \in Nat, y \in Nat, k \in Nat] == (DivRem[x, y, k - 1] * 128) \div y

\* the quotient of x * 2^28 by y for mantissas x and y
DivQuot[x \in Nat, y \in Nat] ==
    (x \div y) * 2 ^ 28 + DivDigit[x, y, 1] * 2 ^ 21 + DivDigit[x, y, 2] * 2 ^ 14
    + DivDigit[x, y, 3] * 128 + DivDigit[x, y, 4]

\* the float nearest to Q and a fraction (if st = 1), times 2^e, for Q < 2^30
F32RoundInt[s \in {0, 1}, Q \in Nat, st \in {0, 1}, e \in Int] ==
    F32RoundHL[s, Q \div 2 ^ 24, Q % 2 ^ 24, st, e]

F32DivSpecial[x \in F32Set, y \in F32Set] ==
    IF isnan(x) \/ isnan(y) THEN F32Nan
    ELSE IF x.k = "inf" THEN (IF y.k = "inf" THEN F32Nan ELSE F32Inf((x.s + y.s) % 2))
    ELSE IF y.k = "inf" THEN F32Zero((x.s + y.s) % 2)
    ELSE IF y.m = 0 THEN (IF x.m = 0 THEN F32Nan ELSE F32Inf((x.s + y.s) % 2))
    ELSE F32Zero((x.s + y.s) % 2)

F32Div[x \in F32Set, y \in F32Set] ==
    IF x.m # 0 /\ y.m # 0
    THEN F32RoundInt[(x.s + y.s) % 2, DivQuot[x.m, y.m],
                     IF DivRem[x.m, y.m, 4] = 0 THEN 0 ELSE 1, x.e - y.e - 28]
    ELSE F32DivSpecial[x, y]

\* r * r as <<hi, lo>>, hi * 2^24 + lo, for r <= 2^27
SquareHL[r \in Nat] == MulHL[r, r]

\* whether r * r <= vh * 2^24
SquareFits[r \in Nat, vh \in Nat] ==
    SquareHL[r][1] < vh \/ (SquareHL[r][1] = vh /\ SquareHL[r][2] = 0)

\* the root of R * R <= m * 2^28 rounded; the square root is R and a fraction
F32SqrtRound[R \in Nat, m \in Nat, e \in Int] ==
    F32RoundInt[0, R, IF SquareHL[R] = <<m * 16, 0>> THEN 0 ELSE 1, (e - 28) \div 2]

\* the square root of m * 2^e for 2^23 <= m < 2^25 and e even: the integer root R
\* of m * 2^28 has 26 or 27 bits.  IEEE-754 requires the result correctly rounded.
F32Sqrt[m \in Nat, e \in Int] ==
    F32SqrtRound[LargestDigits(LAMBDA r : SquareFits[r, m * 16], 8, 0), m, e]

sqrtf[x \in F32Set] ==
    IF isnan(x) THEN F32Nan
    ELSE IF x.k = "num" /\ x.m = 0 THEN x
    ELSE IF x.s = 1 THEN F32Nan
    ELSE IF x.k = "inf" THEN x
    ELSE F32Sqrt[x.m * 2 ^ (x.e % 2), x.e - (x.e % 2)]

\* x moved by k units in its last place
F32Ulps[x \in F32Set, k \in Int] == IF k = 0 THEN x ELSE F32RoundInt[x.s, x.m + k, 0, x.e]

\* whether r^n <= V
PowFits[r \in Nat, n \in Nat, V \in Seq(Nat)] == WideCmp[WidePow[r, n], V] <= 0

\* the root of R^n <= V rounded: exact, or R and a fraction moved by ulps
F32RootRound[s \in {0, 1}, R \in Nat, V \in Seq(Nat), e \in Int, n \in Nat, ulps \in Int] ==
    IF WideCmp[WidePow[R, n], V] = 0 THEN F32RoundInt[s, R, 0, e]
    ELSE F32Ulps[F32RoundInt[s, R, 1, e], ulps]

\* the n-th root of V * 2^(n * e)
F32RootOf[s \in {0, 1}, V \in Seq(Nat), e \in Int, n \in Nat, ulps \in Int] ==
    F32RootRound[s, LargestDigits(LAMBDA r : PowFits[r, n, V], 8, 0), V, e, n, ulps]

\* the n-th root (n = 3 or 5) of m * 2^e, e a multiple of n: the integer root of
\* m * 2^(n*t) has 26 or 27 bits for t = 18 and 21.  The root is rounded to
\* nearest and, when it is not exact, moved by ulps units in the last place.
F32Root[s \in {0, 1}, m \in Nat, e \in Int, n \in Nat, ulps \in Int] ==
    F32RootOf[s, WideShl[WideFromInt[m], IF n = 3 THEN 3 * 18 ELSE 5 * 21],
              IF n = 3 THEN (e \div 3) - 18 ELSE (e \div 5) - 21, n, ulps]

\* libm's cbrtf: exact on cubes, else within libm_ulps of the rounded root
cbrtf[x \in F32Set] ==
    IF x.k # "num" \/ x.m = 0 THEN x
    ELSE F32Root[x.s, x.m * 2 ^ (x.e % 3), x.e - (x.e % 3), 3, libm_ulps]

\* libm's powf(x, .2f) for x >= 0, taken as the fifth root: exact on fifth
\* powers, else within libm_ulps of the rounded root
powf_fifth[x \in F32Set] ==
    IF x.k # "num" \/ x.m = 0 THEN x
    ELSE F32Root[0, x.m * 2 ^ (x.e % 5), x.e - (x.e % 5), 5, libm_ulps]

\* x < 0.f and x > 0.f
F32Neg0(x) == ~isnan(x) /\ ~(x.k = "num" /\ x.m = 0) /\ x.s = 1
F32Pos0(x) == ~isnan(x) /\ ~(x.k = "num" /\ x.m = 0) /\ x.s = 0

\* floor(|x| * 2^bits), for |x| * 2^bits below 2^31
F32Fixed(x, bits) ==
    IF x.e + bits >= 0 THEN x.m * 2 ^ (x.e + bits)
    ELSE IF x.e + bits < -24 THEN 0
    ELSE x.m \div 2 ^ (-(x.e + bits))

-----------------------------------------------------------------------------
(* Root finder (root_finder.c).  Each function of the source is a function    *)
(* here; where the source names intermediate values (offset, p, q, delta, z,  *)
(* ...) a further function takes them as arguments, so that each is computed   *)
(* once.                                                                      *)

\* the float literals of the source
Float0   == F32Zero(0)
Float1   == F32Num(0, 2 ^ 23, -23)
Float2   == F32Num(0, 2 ^ 23, -22)
Float3   == F32Num(0, 3 * 2 ^ 22, -22)
Float4   == F32Num(0, 2 ^ 23, -21)
Float5   == F32Num(0, 5 * 2 ^ 21, -21)
Float8   == F32Num(0, 2 ^ 23, -20)
Float16  == F32Num(0, 2 ^ 23, -19)
Float27  == F32Num(0, 27 * 2 ^ 19, -19)
Float256 == F32Num(0, 2 ^ 23, -15)

\* 1e-13 as the double it is: 0xe12e13424bb41 * 2^-95
EPS == [m |-> <<Hex3(11, 4, 1), Hex3(2, 4, 11), Hex3(1, 3, 4), Hex3(1, 2, 14), Hex3(0, 0, 14)>>,
        e |-> -95]

DoubleSet == [m : Seq(Nat), e : Int]

\* fabs(x) < bound.m * 2^bound.e (or <= when orEqual)
F32Below[x \in F32Set, bound \in DoubleSet, orEqual \in BOOLEAN] ==
    /\ F32IsNum(x)
    /\ \/ x.m = 0
       \/ x.e < bound.e
       \/ /\ x.e - bound.e <= 40
          /\ WideCmp[WideShl[WideFromInt[x.m], x.e - bound.e], bound.m] < (IF orEqual THEN 1 ELSE 0)

CHECK_ZERO_mut(x) == F32Below[x, [m |-> <<1>>, e |-> -20], FALSE]
CHECK_ZERO(x) == F32Below[x, EPS, FALSE]

\* what a solver leaves: the count returned and the entries of roots it wrote
RootsSet == [n : Nat, roots : Seq(F32Set)]

NoRoots == [n |-> 0, roots |-> <<>>]

root_find1[a \in F32Set, b \in F32Set] ==
    IF F32IsZero(a) THEN NoRoots
    ELSE [n |-> 1, roots |-> <<F32Div[F32Neg[b], a]>>]

\* root_find2_monic past the computation of z
root_find2_z[offset \in F32Set, z \in F32Set] ==
    [n |-> 2, roots |-> <<F32Sub[offset, z], F32Add[offset, z]>>]

\* root_find2_monic past the computation of offset and delta
root_find2_delta[offset \in F32Set, delta \in F32Set] ==
    IF CHECK_ZERO(delta) THEN [n |-> 1, roots |-> <<offset>>]
    ELSE IF F32Neg0(delta) THEN NoRoots
    ELSE root_find2_z[offset, F32Div[sqrtf[delta], Float2]]

root_find2_monic[a \in F32Set, b \in F32Set] ==
    root_find2_delta[F32Div[F32Neg[a], Float2],
                     F32Mul[F32Neg[Float4], F32Add[F32Div[F32Mul[F32Neg[a], a], Float4], b]]]

root_find2[a \in F32Set, b \in F32Set, c \in F32Set] ==
    IF ~F32IsZero(a) THEN root_find2_monic[F32Div[b, a], F32Div[c, a]]
    ELSE root_find1[b, c]

\* A - B for wide naturals, as a sign and a magnitude
NDiff[A \in Seq(Nat), B \in Seq(Nat)] ==
    IF WideCmp[A, B] >= 0 THEN [neg |-> FALSE, mag |-> WideSub[A, B]]
    ELSE [neg |-> TRUE, mag |-> WideSub[B, A]]

\* the terms 4a^3 and 3a * 2^48 of T_3(a / 2^24) * 2^72, T_3 the Chebyshev
\* polynomial with T_3(cos t) = cos 3t
Cheb3Terms[a \in Nat] == <<WideMulInt[WidePow[a, 3], 4], WideShl[WideFromInt[3 * a], 48]>>

\* T_3(n / 2^24) * 2^72 = 4n^3 - 3n * 2^48 from the terms of |n|
Cheb3Of[T \in Seq(Seq(Nat)), neg \in BOOLEAN] ==
    NDiff[T[IF neg THEN 2 ELSE 1], T[IF neg THEN 1 ELSE 2]]

Cheb3[n \in Int] == Cheb3Of[Cheb3Terms[IF n >= 0 THEN n ELSE -n], n < 0]

\* the sign of g - (-1)^s * T for a signed g
SignedCmp[g \in [neg : BOOLEAN, mag : Seq(Nat)], s \in {0, 1}, T \in Seq(Nat)] ==
    IF (g.neg /\ g.mag # <<>>) /\ ~(s = 1 /\ T # <<>>) THEN -1
    ELSE IF ~(g.neg /\ g.mag # <<>>) /\ (s = 1 /\ T # <<>>) THEN 1
    ELSE IF g.neg /\ g.mag # <<>> THEN -WideCmp[g.mag, T]
    ELSE WideCmp[g.mag, T]

\* the sign of T_3(n / 2^24) - arg for a float |arg| <= 1
Cheb3Cmp[n \in Int, arg \in F32Set] ==
    SignedCmp[Cheb3[n], arg.s,
              IF arg.m = 0 THEN <<>>
              ELSE IF arg.e + 72 >= 0 THEN WideShl[WideFromInt[arg.m], arg.e + 72]
              ELSE WideShr[WideFromInt[arg.m], -(arg.e + 72)]]

\* the largest n in lo..hi with sign * (T_3(n / 2^24) - arg) <= 0, lo being one
Cheb3Bisect[lo \in Int, hi \in Int, arg \in F32Set, sign \in {-1, 1}] ==
    lo + LargestDigits(LAMBDA r : lo + r <= hi /\ sign * Cheb3Cmp[lo + r, arg] <= 0, 8, 0)

\* n, moved by libm_ulps grid units unless T_3(n / 2^24) = arg exactly
Cheb3Libm[n \in Int, arg \in F32Set] ==
    IF Cheb3Cmp[n, arg] = 0 THEN n
    ELSE Max(-(2 ^ 24), Min(2 ^ 24, n + libm_ulps))

\* cosf(acosf(arg) / 3.f + k * 2.f*M_PI/3.f) for k = 0, 1, 2.  acosf and cosf are
\* libm functions: their composition is taken at its mathematical value, the
\* root of 4c^3 - 3c = arg in the k-th interval of monotony, on a grid of 2^-24.
cos_third[arg \in F32Set, k \in {0, 1, 2}] ==
    IF ~F32IsNum(arg) THEN F32Nan
    ELSE IF ~(arg.m = 0 \/ arg.e < -23 \/ (arg.e = -23 /\ arg.m = 2 ^ 23)) THEN F32Nan
    ELSE F32Dyadic[Cheb3Libm[Cheb3Bisect[CASE k = 0 -> 2 ^ 23 [] k = 1 -> -(2 ^ 24) [] k = 2 -> -(2 ^ 23),
                                         CASE k = 0 -> 2 ^ 24 [] k = 1 -> -(2 ^ 23) [] k = 2 -> 2 ^ 23,
                                         arg, IF k = 2 THEN -1 ELSE 1],
                             arg],
                   -24]

\* root_find3_monic when delta is zero
root_find3_u[offset \in F32Set, u \in F32Set] ==
    [n |-> 2, roots |-> <<F32Add[offset, F32Mul[Float2, u]], F32Sub[offset, u]>>]

\* root_find3_monic when delta > 0
root_find3_z[offset \in F32Set, q2 \in F32Set, z \in F32Set] ==
    [n |-> 1, roots |-> <<F32Add[F32Add[cbrtf[F32Add[F32Neg[q2], z]], cbrtf[F32Sub[F32Neg[q2], z]]],
                                 offset]>>]

\* root_find3_monic when delta < 0, v being acosf(arg) / 3.f
root_find3_trig[offset \in F32Set, u \in F32Set, arg \in F32Set] ==
    [n |-> 3, roots |-> <<>> \o [i \in 1..3 |-> F32Add[offset, F32Mul[u, cos_third[arg, i - 1]]]]]

\* root_find3_monic past its first test
root_find3_delta[offset \in F32Set, p \in F32Set, q \in F32Set, q2 \in F32Set, p3 \in F32Set, delta \in F32Set] ==
    IF CHECK_ZERO(delta) THEN root_find3_u[offset, cbrtf[q2]]
    ELSE IF F32Pos0(delta) THEN root_find3_z[offset, q2, sqrtf[delta]]
    ELSE root_find3_trig[offset, F32Mul[Float2, sqrtf[F32Neg[p3]]],
                         F32Mul[F32Div[F32Mul[Float3, q], F32Mul[Float2, p]],
                                sqrtf[F32Div[F32Neg[Float1], p3]]]]

\* root_find3_monic past the computation of q2 and p3
root_find3_q2p3[offset \in F32Set, p \in F32Set, q \in F32Set, q2 \in F32Set, p3 \in F32Set] ==
    IF CHECK_ZERO(p) /\ CHECK_ZERO(q) THEN [n |-> 1, roots |-> <<offset>>]
    ELSE root_find3_delta[offset, p, q, q2, p3,
                          F32Add[F32Mul[q2, q2], F32Mul[F32Mul[p3, p3], p3]]]

\* root_find3_monic past the computation of offset, p and q
root_find3_pq[offset \in F32Set, p \in F32Set, q \in F32Set] ==
    root_find3_q2p3[offset, p, q, F32Div[q, Float2], F32Div[p, Float3]]

root_find3_monic[a \in F32Set, b \in F32Set, c \in F32Set] ==
    root_find3_pq[F32Div[F32Neg[a], Float3],
                  F32Sub[b, F32Div[F32Mul[a, a], Float3]],
                  F32Add[F32Sub[F32Div[F32Mul[F32Mul[F32Mul[a, a], a], Float2], Float27],
                                F32Div[F32Mul[a, b], Float3]],
                         c]]

root_find3[a \in F32Set, b \in F32Set, c \in F32Set, d \in F32Set] ==
    IF ~F32IsZero(a) THEN root_find3_monic[F32Div[b, a], F32Div[c, a], F32Div[d, a]]
    ELSE root_find2[b, c, d]

\* roots[i] += offset for the roots reported; the entries of the caller's array
\* past them hold indeterminate values before and after
add_offset[res \in RootsSet, offset \in F32Set] ==
    [n |-> res.n, roots |-> <<>> \o [i \in 1..res.n |-> F32Add[res.roots[i], offset]]]

\* the roots of the two quadratics, in the order written
root_find4_sum[lo \in RootsSet, hi \in RootsSet, offset \in F32Set] ==
    add_offset[[n |-> lo.n + hi.n, roots |-> lo.roots \o hi.roots], offset]

\* root_find4_monic past the computation of sv
root_find4_sv[offset \in F32Set, z \in F32Set, u \in F32Set, sv \in F32Set] ==
    root_find4_sum[root_find2_monic[sv, F32Sub[z, u]], root_find2_monic[F32Neg[sv], F32Add[z, u]],
                   offset]

\* root_find4_monic past the computation of s and t
root_find4_st[offset \in F32Set, q \in F32Set, z \in F32Set, s \in F32Set, t \in F32Set] ==
    IF F32Neg0(s) \/ F32Neg0(t) THEN NoRoots
    ELSE root_find4_sv[offset, z, sqrtf[s],
                       IF F32Neg0(q) THEN F32Neg[sqrtf[t]] ELSE sqrtf[t]]

\* root_find4_monic with z = roots[0] of the resolvent cubic
root_find4_z[offset \in F32Set, p \in F32Set, q \in F32Set, r \in F32Set, z \in F32Set] ==
    root_find4_st[offset, q, z, F32Sub[F32Mul[z, z], r], F32Sub[F32Mul[Float2, z], p]]

\* root_find4_monic when r is zero: roots[0] = 0.f and the cubic's roots after it
root_find4_zero[r3 \in RootsSet, offset \in F32Set] ==
    add_offset[[n |-> 1 + r3.n, roots |-> <<Float0>> \o r3.roots], offset]

\* root_find4_monic past the computation of offset, p, q and r
root_find4_pqr[offset \in F32Set, p \in F32Set, q \in F32Set, r \in F32Set] ==
    IF CHECK_ZERO(r) THEN root_find4_zero[root_find3_monic[Float0, p, q], offset]
    ELSE root_find4_z[offset, p, q, r,
                      root_find3_monic[F32Div[F32Neg[p], Float2], F32Neg[r],
                                       F32Sub[F32Div[F32Mul[p, r], Float2],
                                              F32Div[F32Mul[q, q], Float8]]].roots[1]]

root_find4_monic[a \in F32Set, b \in F32Set, c \in F32Set, d \in F32Set] ==
    root_find4_pqr[F32Div[F32Neg[a], Float4],
                   F32Add[F32Div[F32Mul[F32Mul[F32Neg[Float3], a], a], Float8], b],
                   F32Add[F32Sub[F32Div[F32Mul[F32Mul[a, a], a], Float8],
                                 F32Div[F32Mul[a, b], Float2]],
                          c],
                   F32Add[F32Sub[F32Add[F32Div[F32Mul[F32Mul[F32Mul[F32Mul[F32Neg[Float3], a], a], a],
                                                      a],
                                               Float256],
                                        F32Div[F32Mul[F32Mul[a, a], b], Float16]],
                                 F32Div[F32Mul[a, c], Float4]],
                          d]]

root_find4[a \in F32Set, b \in F32Set, c \in F32Set, d \in F32Set, e \in F32Set] ==
    IF ~F32IsZero(a) THEN root_find4_monic[F32Div[b, a], F32Div[c, a], F32Div[d, a], F32Div[e, a]]
    ELSE root_find3[b, c, d, e]

-----------------------------------------------------------------------------
(* The quintic solver of root_finder.c *)

\* a double constant (-1)^s * m * 2^e, m a wide natural
Dbl(s, m, e) == [s |-> s, m |-> m, e |-> e]

\* C5_k and S5_k, k = 0..4: the doubles the decimal literals denote
C5S5 ==
    LET c0 == <<Hex3(5, 0, 3), Hex3(4, 4, 5), Hex3(14, 1, 3), Hex3(6, 15, 0), Hex3(0, 1, 14)>>
        c3 == <<Hex3(10, 5, 13), Hex3(7, 5, 5), Hex3(3, 0, 4), Hex3(12, 15, 2), Hex3(0, 1, 2)>>
        s0 == <<Hex3(13, 2, 9), Hex3(14, 5, 15), Hex3(13, 14, 6), Hex3(7, 8, 13), Hex3(0, 0, 2)>>
        s2 == <<Hex3(4, 10, 13), Hex3(9, 7, 15), Hex3(7, 9, 11), Hex3(14, 3, 7), Hex3(0, 0, 9)>>
        s3 == <<Hex3(13, 2, 9), Hex3(14, 5, 15), Hex3(13, 14, 6), Hex3(7, 8, 13), Hex3(0, 0, 6)>>
        s4 == <<Hex3(4, 10, 13), Hex3(9, 7, 15), Hex3(7, 9, 11), Hex3(14, 3, 7), Hex3(0, 1, 9)>>
    IN << <<Dbl(0, c0, -53), Dbl(0, s0, -51)>>,
          <<Dbl(0, <<>>, 0), Dbl(0, <<1>>, 0)>>,
          <<Dbl(1, c0, -53), Dbl(0, s2, -53)>>,
          <<Dbl(1, c3, -53), Dbl(1, s3, -51)>>,
          <<Dbl(0, c3, -53), Dbl(1, s4, -53)>> >>

MAX_ITERATION == 16

\* (float)(r * k) for a float r and a double k; the product is rounded once
F32MulDbl[r \in F32Set, k \in [s : {0, 1}, m : Seq(Nat), e : Int]] ==
    IF ~F32IsNum(r) THEN (IF isnan(r) \/ k.m = <<>> THEN F32Nan ELSE F32Inf((r.s + k.s) % 2))
    ELSE F32Round[(r.s + k.s) % 2, WideMulInt[k.m, r.m], r.e + k.e]

\* float complex values are pairs <<re, im>>; products and quotients follow the
\* formulas of C's Annex G without its recovery of infinities
ComplexSet == Seq(F32Set)

creal(z) == z[1]
cimag(z) == z[2]
CAdd[x \in ComplexSet, y \in ComplexSet] == <<F32Add[x[1], y[1]], F32Add[x[2], y[2]]>>
CSub[x \in ComplexSet, y \in ComplexSet] == <<F32Sub[x[1], y[1]], F32Sub[x[2], y[2]]>>
CMul[x \in ComplexSet, y \in ComplexSet] ==
    <<F32Sub[F32Mul[x[1], y[1]], F32Mul[x[2], y[2]]],
      F32Add[F32Mul[x[1], y[2]], F32Mul[x[2], y[1]]]>>

\* x / y with denom = |y|^2
CDivBy[x \in ComplexSet, y \in ComplexSet, denom \in F32Set] ==
    <<F32Div[F32Add[F32Mul[x[1], y[1]], F32Mul[x[2], y[2]]], denom],
      F32Div[F32Sub[F32Mul[x[2], y[1]], F32Mul[x[1], y[2]]], denom]>>

CDiv[x \in ComplexSet, y \in ComplexSet] ==
    CDivBy[x, y, F32Add[F32Mul[y[1], y[1]], F32Mul[y[2], y[2]]]]

CReal(a) == <<a, Float0>>
cabsf[z \in ComplexSet] == sqrtf[F32Add[F32Mul[z[1], z[1]], F32Mul[z[2], z[2]]]]

\* y + c for a complex y and a float c
CAddReal[y \in ComplexSet, c \in F32Set] == <<F32Add[y[1], c], y[2]>>

poly1[a \in F32Set, b \in F32Set, x \in ComplexSet] ==
    <<F32Add[F32Mul[a, x[1]], b], F32Mul[a, x[2]]>>
poly2[a \in F32Set, b \in F32Set, c \in F32Set, x \in ComplexSet] ==
    CAddReal[CMul[poly1[a, b, x], x], c]
poly3[a \in F32Set, b \in F32Set, c \in F32Set, d \in F32Set, x \in ComplexSet] ==
    CAddReal[CMul[poly2[a, b, c, x], x], d]
poly4[a \in F32Set, b \in F32Set, c \in F32Set, d \in F32Set, e \in F32Set, x \in ComplexSet] ==
    CAddReal[CMul[poly3[a, b, c, d, x], x], e]
poly5[a \in F32Set, b \in F32Set, c \in F32Set, d \in F32Set, e \in F32Set, f \in F32Set, x \in ComplexSet] ==
    CAddReal[CMul[poly4[a, b, c, d, e, x], x], f]

\* d * d
F32Square[d \in F32Set] == F32Mul[d, d]

\* err after the entries 1..i
get_err_sq_from[a \in Seq(ComplexSet), b \in Seq(ComplexSet), i \in Nat] ==
    IF i = 0 THEN Float0
    ELSE F32Add[get_err_sq_from[a, b, i - 1], F32Square[cabsf[CSub[a[i], b[i]]]]]

get_err_sq[a \in Seq(ComplexSet), b \in Seq(ComplexSet)] == get_err_sq_from[a, b, 5]

\* 1.f / (prv[i] - prv[j])
aberth_inv[prv \in Seq(ComplexSet), i \in 1..5, j \in 1..5] ==
    CDiv[CReal(Float1), CSub[prv[i], prv[j]]]

\* the sum of four reciprocals, in the order of the source
aberth_sum_of[t \in Seq(ComplexSet)] == CAdd[CAdd[CAdd[t[1], t[2]], t[3]], t[4]]

\* sum[i]: the reciprocals for the four other entries of prv, in increasing order
aberth_sum[prv \in Seq(ComplexSet), i \in 1..5] ==
    aberth_sum_of[[k \in 1..4 |-> aberth_inv[prv, i, IF k < i THEN k ELSE k + 1]]]

\* cur[i] from prv[i], pod and sum[i]
aberth_cur[x \in ComplexSet, pod \in ComplexSet, sum \in ComplexSet] ==
    CSub[x, CDiv[pod, CSub[CReal(Float1), CMul[pod, sum]]]]

\* cur[i]; co holds the arguments a..f
aberth_root[prv \in Seq(ComplexSet), i \in 1..5, co \in Seq(F32Set)] ==
    aberth_cur[prv[i],
               CDiv[poly5[co[1], co[2], co[3], co[4], co[5], co[6], prv[i]],
                    poly4[F32Mul[Float5, co[1]], F32Mul[Float4, co[2]], F32Mul[Float3, co[3]],
                          F32Mul[Float2, co[4]], co[5], prv[i]]],
               aberth_sum[prv, i]]

\* one pass of the loop body: cur from prv
aberth_step[prv \in Seq(ComplexSet), co \in Seq(F32Set)] ==
    <<>> \o [i \in 1..5 |-> aberth_root[prv, i, co]]

\* EPS*EPS as the double it is
EPS_SQ == [m |-> <<Hex3(2, 12, 5), Hex3(2, 11, 11), Hex3(0, 3, 1), Hex3(3, 0, 9), Hex3(0, 0, 6)>>,
           e |-> -137]

\* the roots kept after the loop, from the entries 1..i of prv
real_roots[prv \in Seq(ComplexSet), i \in Nat] ==
    IF i = 0 THEN <<>>
    ELSE real_roots[prv, i - 1]
         \o (IF F32Below[cimag(prv[i]), EPS, TRUE] THEN <<creal(prv[i])>> ELSE <<>>)

\* prv_buffer: the five start values on the circle of radius r
aberth_start[r \in F32Set] ==
    <<>> \o [k \in 1..5 |-> <<F32MulDbl[r, C5S5[k][1]], F32MulDbl[r, C5S5[k][2]]>>]

\* the arguments a..f root_find5_monic gives to alberth_ehrlich_p5
root_find5_monic[a \in F32Set, b \in F32Set, c \in F32Set, d \in F32Set, e \in F32Set] ==
    <<Float1, a, b, c, d, e>>

\* the state of a call: finished ("found": the count returned and the roots
\* written) or inside the loop of alberth_ehrlich_p5 ("aberth": the arguments co,
\* the buffer prv and the iteration m to do)
CallFound(res) ==
    [state |-> "found", n |-> res.n, roots |-> res.roots, co |-> <<>>, prv |-> <<>>, m |-> 0]

\* alberth_ehrlich_p5 up to its loop, co holding the arguments a..f
alberth_ehrlich_p5[co \in Seq(F32Set)] ==
    [state |-> "aberth", n |-> 0, roots |-> <<>>, co |-> co,
     prv |-> aberth_start[powf_fifth[fabsf[F32Div[co[6], co[1]]]]], m |-> 1]

\* the return of alberth_ehrlich_p5 for the roots kept
aberth_return[roots \in Seq(F32Set)] == CallFound([n |-> Len(roots), roots |-> roots])

\* one iteration of the loop of alberth_ehrlich_p5, cur being the buffer it
\* filled, and the count of the roots when the loop ends
aberth_iterate[prv \in Seq(ComplexSet), cur \in Seq(ComplexSet), co \in Seq(F32Set), m \in Nat] ==
    IF m = MAX_ITERATION \/ F32Below[get_err_sq[prv, cur], EPS_SQ, FALSE]
    THEN aberth_return[real_roots[cur, 5]]
    ELSE [state |-> "aberth", n |-> 0, roots |-> <<>>, co |-> co, prv |-> cur, m |-> m + 1]

ngli_root_find5[a \in F32Set, b \in F32Set, c \in F32Set, d \in F32Set, e \in F32Set, f \in F32Set] ==
    IF ~F32IsZero(a)
    THEN alberth_ehrlich_p5[root_find5_monic[F32Div[b, a], F32Div[c, a], F32Div[d, a],
                                             F32Div[e, a], F32Div[f, a]]]
    ELSE CallFound(root_find4[b, c, d, e, f])

-----------------------------------------------------------------------------
(* The root finder's test (test_root_finder.c): a polynomial of known real    *)
(* roots is given to ngli_root_find5 and the roots reported are sorted.       *)

MaxRoot == 3

RootValues == (1 - MaxRoot)..MaxRoot
Leads      == {1, 2}
LibmUlps   == {-1, 0, 1}

IsSortedInts(s) == \A i \in 1..(Len(s) - 1) : s[i] <= s[i + 1]

\* the lists of known roots: ascending, with multiplicity, up to the degree 4 of
\* the closed-form solvers
KnownRootLists ==
    UNION {{s \in [1..n -> RootValues] : IsSortedInts(s)} : n \in 0..4}

\* p * (x - r), coefficients by ascending power
MulLinear(p, r) ==
    [i \in 1..(Len(p) + 1) |->
        (IF i > 1 THEN p[i - 1] ELSE 0) - (IF i <= Len(p) THEN r * p[i] ELSE 0)]

\* p * (x^2 + 1)
MulNoRealRoot(p) ==
    [i \in 1..(Len(p) + 2) |->
        (IF i > 2 THEN p[i - 2] ELSE 0) + (IF i <= Len(p) THEN p[i] ELSE 0)]

RECURSIVE FromRoots(_, _, _)
FromRoots(lead, known, i) ==
    IF i = 0 THEN <<lead>> ELSE MulLinear(FromRoots(lead, known, i - 1), known[i])

\* the arguments a..f of ngli_root_find5 for coefficients by ascending power
Arguments(p) == [i \in 1..6 |-> IF 7 - i <= Len(p) THEN p[7 - i] ELSE 0]

PolyTest(coeffs, known) == [coeffs |-> coeffs, known |-> known]

\* (x-2)(x+3)(x-5)(x+7)(x-11) of the test table, x^5 and x^5 - x
QuinticTests ==
    {PolyTest(<<1, -8, -72, 382, 727, -2310>>, <<-7, -3, 2, 5, 11>>),
     PolyTest(<<1, 0, 0, 0, 0, 0>>, <<0, 0, 0, 0, 0>>),
     PolyTest(<<1, 0, 0, 0, -1, 0>>, <<-1, 0, 1>>)}

PolyTests ==
    {PolyTest(Arguments(FromRoots(lead, known, Len(known))), known) :
        lead \in Leads, known \in KnownRootLists}
    \cup {PolyTest(Arguments(MulNoRealRoot(FromRoots(lead, known, Len(known)))), known) :
        lead \in Leads, known \in {k \in KnownRootLists : Len(k) <= 2}}
    \cup {PolyTest(<<0, 0, 0, 0, 0, lead - 1>>, <<>>) : lead \in Leads}
    \cup QuinticTests

RootsCall(libm, t) ==
    [libm |-> libm, coeffs |-> t.coeffs, known |-> t.known, state |-> "polytest",
     nroots |-> 0, roots |-> <<>>, co |-> <<>>, prv |-> <<>>, m |-> 0]

RootsInitState ==
    /\ BackendIdle /\ TextIdle /\ PathIdle
    /\ NoiseIdle /\ SkewIdle /\ WindowIdle /\ PathDrawIdle
    /\ \E libm \in LibmUlps, t \in PolyTests : roots_call = RootsCall(libm, t)

notRoots == <<backendVars, textVars, pathVars, noiseVars, skewVars, windowVars, pathdrawVars>>

\* f0 < f1
F32Less(f0, f1) == F32Neg0(F32Sub[f0, f1])

cmp_root[f0 \in F32Set, f1 \in F32Set] ==
    IF F32Less(f0, f1) THEN -1 ELSE IF F32Less(f1, f0) THEN 1 ELSE 0

\* x inserted into the sorted list s, before the first entry cmp_root puts after it
insert_root[s \in Seq(F32Set), x \in F32Set] ==
    IF s = <<>> THEN <<x>>
    ELSE IF cmp_root[x, Head(s)] < 0 THEN <<x>> \o s
    ELSE <<Head(s)>> \o insert_root[Tail(s), x]

\* qsort(roots, nroots, sizeof(*roots), cmp_root)
qsort[roots \in Seq(F32Set), n \in Nat] ==
    IF n = 0 THEN <<>> ELSE insert_root[qsort[roots, n - 1], roots[n]]

\* the call's state put into roots_call
RootsCalled(r) ==
    roots_call' = [roots_call EXCEPT !.state = r.state, !.nroots = r.n, !.roots = r.roots,
                                     !.co = r.co, !.prv = r.prv, !.m = r.m]

\* nroots = ngli_root_find5(roots, c[5], c[4], c[3], c[2], c[1], c[0]), up to its
\* return or to the loop of alberth_ehrlich_p5
RootsFind ==
    /\ roots_call.state = "polytest"
    /\ \E r \in {ngli_root_find5[F32FromInt[roots_call.coeffs[1]], F32FromInt[roots_call.coeffs[2]],
                                 F32FromInt[roots_call.coeffs[3]], F32FromInt[roots_call.coeffs[4]],
                                 F32FromInt[roots_call.coeffs[5]], F32FromInt[roots_call.coeffs[6]]]} :
          RootsCalled(r)
    /\ UNCHANGED notRoots

\* one iteration of the loop of alberth_ehrlich_p5; the last one returns
AberthIterate ==
    /\ roots_call.state = "aberth"
    /\ \E cur \in {aberth_step[roots_call.prv, roots_call.co]} :
          \E r \in {aberth_iterate[roots_call.prv, cur, roots_call.co, roots_call.m]} :
             RootsCalled(r)
    /\ UNCHANGED notRoots

RootsSort ==
    /\ roots_call.state = "found"
    /\ roots_call' = [roots_call EXCEPT !.state = "sorted",
                                        !.roots = qsort[roots_call.roots, roots_call.nroots]]
    /\ UNCHANGED notRoots

RootsNext == RootsFind \/ AberthIterate \/ RootsSort

SpecRoots == RootsInitState /\ [][RootsNext]_vars

-----------------------------------------------------------------------------
(* node_pathdraw.c: the PathDraw node *)

\* the GPU objects the node created, in the order of their creation: each is
\* [type, live]; a pointer to an object is its index, NULL is no object
gpu_create(g, type) == Append(g, [type |-> type, live |-> TRUE])

\* ngli_texture_freep(), ngli_buffer_freep(), ngli_pipeline_freep() and
\* ngli_pgcraft_freep() applied to the pointers of the set H
gpu_free(g, H) == [h \in 1..Len(g) |-> IF h \in H THEN [g[h] EXCEPT !.live = FALSE] ELSE g[h]]

\* struct pipeline_desc after memset(desc, 0, sizeof(*desc))
NullPipelineDesc == [crafter |-> NULL, pipeline |-> NULL]

\* the private data of a PathDraw node: zeroed
NewPathDraw ==
    [distmap |-> NULL, vertices |-> NULL, indices |-> NULL, nb_indices |-> 0,
     pipeline_descs |-> <<>>]

\* the results of the node's functions are [ret, s, gpu]
pathdraw_result(ret, s, g) == [ret |-> ret, s |-> s, gpu |-> g]

\* pathdraw_init(): the distance map texture, once the canvas is allocated and filled
pathdraw_init_distmap(s, g, fail) ==
    IF fail = "texture_create" THEN pathdraw_result(NGL_ERROR_MEMORY, [s EXCEPT !.distmap = NULL], g)
    ELSE pathdraw_result(IF fail \in {"texture_init", "texture_upload"}
                         THEN NGL_ERROR_EXTERNAL ELSE NGL_OK,
                         [s EXCEPT !.distmap = Len(g) + 1], gpu_create(g, "texture"))

\* pathdraw_init(); fail names the step that fails
pathdraw_init(s, g, fail) ==
    IF fail = "canvas" THEN pathdraw_result(NGL_ERROR_MEMORY, [s EXCEPT !.pipeline_descs = <<>>], g)
    ELSE pathdraw_init_distmap([s EXCEPT !.pipeline_descs = <<>>], g, fail)

\* pathdraw_prepare(): the crafter and the pipeline of the descriptor pushed last
pathdraw_prepare_pipeline(s, g, fail) ==
    LET n == Len(s.pipeline_descs)
        s1 == [s EXCEPT !.pipeline_descs[n].crafter = Len(g) + 1]
        g1 == gpu_create(g, "pgcraft")
    IN IF fail = "pgcraft_create" THEN pathdraw_result(NGL_ERROR_MEMORY, s, g)
       ELSE IF fail = "pgcraft_craft" THEN pathdraw_result(NGL_ERROR_EXTERNAL, s1, g1)
       ELSE IF fail = "pipeline_create" THEN pathdraw_result(NGL_ERROR_MEMORY, s1, g1)
       ELSE pathdraw_result(IF fail = "pipeline_init" THEN NGL_ERROR_EXTERNAL ELSE NGL_OK,
                            [s1 EXCEPT !.pipeline_descs[n].pipeline = Len(g1) + 1],
                            gpu_create(g1, "pipeline"))

\* pathdraw_prepare(): the vertex buffer, which takes the place of the one the
\* previous prepare left in s->vertices
pathdraw_prepare_vertices(s, g, fail) ==
    IF fail = "buffer_create" THEN pathdraw_result(NGL_ERROR_MEMORY, [s EXCEPT !.vertices = NULL], g)
    ELSE IF fail \in {"buffer_init", "buffer_upload"}
    THEN pathdraw_result(NGL_ERROR_EXTERNAL, [s EXCEPT !.vertices = Len(g) + 1],
                         gpu_create(g, "buffer"))
    ELSE pathdraw_prepare_pipeline([s EXCEPT !.vertices = Len(g) + 1],
                                   gpu_create(g, "buffer"), fail)

\* an id that counts the descriptors from 1
pathdraw_rnode_id_mut(descs) == Len(descs)

\* pathdraw_prepare(): ctx->rnode_pos->id, from the list the descriptor was pushed to
pathdraw_rnode_id(descs) == Len(descs) - 1

\* pathdraw_prepare(); fail names the step that fails
pathdraw_prepare(s, g, fail) ==
    IF fail = "push" THEN pathdraw_result(NGL_ERROR_MEMORY, s, g)
    ELSE pathdraw_prepare_vertices([s EXCEPT !.pipeline_descs = Append(@, NullPipelineDesc)],
                                   g, fail)

\* pathdraw_update()
pathdraw_update(s, t) == NGL_OK

\* pathdraw_draw() of the render path whose id is id: the pipeline that draws
pathdraw_draw(s, id) == s.pipeline_descs[id + 1].pipeline

\* the pointers pathdraw_uninit() frees
pathdraw_freed(s) ==
    {s.pipeline_descs[i].pipeline : i \in 1..Len(s.pipeline_descs)}
        \cup {s.pipeline_descs[i].crafter : i \in 1..Len(s.pipeline_descs)}
        \cup {s.vertices, s.indices}

\* pathdraw_uninit(). Result: [s, gpu]
pathdraw_uninit(s, g) ==
    [s |-> [s EXCEPT !.vertices = NULL, !.indices = NULL, !.pipeline_descs = <<>>],
     gpu |-> gpu_free(g, pathdraw_freed(s))]

-----------------------------------------------------------------------------
(* The PathDraw node driven by the node framework *)

MaxRenderPaths == 2
MaxGpuObjects == 4

\* the node's state and its last call; rnodes holds ctx->rnode_pos->id of the
\* render paths prepared, drawn the pipeline the last draw used
PathDrawCall(state, op, ret, t, rnodes, pipeline) ==
    [state |-> state, op |-> op, ret |-> ret, t |-> t, rnodes |-> rnodes, drawn |-> pipeline]

PathDrawInitState ==
    /\ pathdraw_priv = NewPathDraw
    /\ pathdraw_node = PathDrawCall("created", "none", NGL_OK, FZero, <<>>, NULL)
    /\ gpu = <<>>

PathDrawInitFails == {"none", "canvas", "texture_create", "texture_init", "texture_upload"}

PathDrawPrepareFails ==
    {"none", "push", "buffer_create", "buffer_init", "buffer_upload", "pgcraft_create",
     "pgcraft_craft", "pipeline_create", "pipeline_init"}

\* pathdraw_init() of a new node, or of a node that was uninitialized, which
\* keeps its private data
PathDrawInit(fail) ==
    /\ pathdraw_node.state \in {"created", "uninitialized"}
    /\ Len(gpu) < MaxGpuObjects
    /\ \E r \in {pathdraw_init(pathdraw_priv, gpu, fail)} :
          /\ pathdraw_priv' = r.s
          /\ gpu' = r.gpu
          /\ pathdraw_node' = PathDrawCall(IF r.ret = NGL_OK THEN "initialized" ELSE "init_failed",
                                           "init", r.ret, FZero, <<>>, NULL)
    /\ UNCHANGED <<backendVars, textVars, pathVars, noiseVars, rootsVars, skewVars, windowVars>>

\* pathdraw_prepare() for one more render path; the scene of a node whose
\* prepare failed is not rendered
PathDrawPrepare(fail) ==
    /\ pathdraw_node.state = "initialized"
    /\ Len(pathdraw_priv.pipeline_descs) < MaxRenderPaths
    /\ \E r \in {pathdraw_prepare(pathdraw_priv, gpu, fail)} :
          /\ pathdraw_priv' = r.s
          /\ gpu' = r.gpu
          /\ pathdraw_node' =
                PathDrawCall(IF r.ret = NGL_OK THEN "initialized" ELSE "prepare_failed",
                             "prepare", r.ret, FZero,
                             IF fail = "push" THEN pathdraw_node.rnodes
                             ELSE Append(pathdraw_node.rnodes,
                                         pathdraw_rnode_id(r.s.pipeline_descs)),
                             NULL)
    /\ UNCHANGED <<backendVars, textVars, pathVars, noiseVars, rootsVars, skewVars, windowVars>>

\* pathdraw_update(t)
PathDrawUpdate(t) ==
    /\ pathdraw_node.state = "initialized"
    /\ pathdraw_node' = PathDrawCall("initialized", "update", pathdraw_update(pathdraw_priv, t),
                                     t, pathdraw_node.rnodes, NULL)
    /\ UNCHANGED <<backendVars, textVars, pathVars, noiseVars, rootsVars, skewVars, windowVars,
                   pathdraw_priv, gpu>>

\* pathdraw_draw() of the render path rn; a draw through an id outside the list
\* is undefined and is not followed
PathDrawDraw(rn) ==
    /\ pathdraw_node.state = "initialized"
    /\ pathdraw_node.op \in {"update", "draw"}
    /\ rn \in 1..Len(pathdraw_node.rnodes)
    /\ pathdraw_node.rnodes[rn] + 1 \in 1..Len(pathdraw_priv.pipeline_descs)
    /\ pathdraw_node' = PathDrawCall("initialized", "draw", NGL_OK, pathdraw_node.t,
                                     pathdraw_node.rnodes,
                                     pathdraw_draw(pathdraw_priv, pathdraw_node.rnodes[rn]))
    /\ UNCHANGED <<backendVars, textVars, pathVars, noiseVars, rootsVars, skewVars, windowVars,
                   pathdraw_priv, gpu>>

\* pathdraw_uninit()
PathDrawUninit ==
    /\ pathdraw_node.state \in {"initialized", "init_failed", "prepare_failed"}
    /\ \E r \in {pathdraw_uninit(pathdraw_priv, gpu)} :
          /\ pathdraw_priv' = r.s
          /\ gpu' = r.gpu
    /\ pathdraw_node' = PathDrawCall("uninitialized", "uninit", NGL_OK, FZero, <<>>, NULL)
    /\ UNCHANGED <<backendVars, textVars, pathVars, noiseVars, rootsVars, skewVars, windowVars>>

PathDrawNext ==
    \/ \E fail \in PathDrawInitFails : PathDrawInit(fail)
    \/ \E fail \in PathDrawPrepareFails : PathDrawPrepare(fail)
    \/ \E t \in Times : PathDrawUpdate(t)
    \/ \E rn \in 1..MaxRenderPaths : PathDrawDraw(rn)
    \/ PathDrawUninit

\* the PathDraw node alone
PathDrawAloneInit ==
    /\ BackendIdle /\ TextIdle /\ PathIdle /\ NoiseIdle /\ RootsIdle /\ SkewIdle /\ WindowIdle
    /\ PathDrawInitState

SpecPathDraw == PathDrawAloneInit /\ [][PathDrawNext]_vars

-----------------------------------------------------------------------------
(* A Text node and a PathDraw node prepared for several render paths *)

RenderPathsInit ==
    /\ BackendIdle /\ PathIdle /\ NoiseIdle /\ RootsIdle /\ SkewIdle /\ WindowIdle
    /\ priv = NewText(<<>>, White, <<>>)
    /\ text_node = NodeCall("created", "none", NGL_OK, FZero)
    /\ rand_state = 0
    /\ scratch_live = 0
    /\ text_rnodes = <<>>
    /\ drawn = NoDraw
    /\ PathDrawInitState

\* a text of one letter and a text of two
RenderPathsTexts == {<<LetterA>>, <<LetterA, LetterA>>}

\* the calls of the two nodes in any order: prepares that succeed or fail at
\* the push, live changes of the text, updates, draws and uninit
RenderPathsNext ==
    \/ \E text \in RenderPathsTexts : TextInit(text, White, <<>>, "none")
    \/ \E fail \in {"none", "push"} : TextPrepareUpTo(fail, MaxRenderPaths)
    \/ \E text \in RenderPathsTexts : SetText(text)
    \/ TextUpdate(FZero, "none", "memmove")
    \/ \E rn \in 1..MaxRenderPaths : TextDraw(rn)
    \/ TextUninit
    \/ PathDrawInit("none")
    \/ \E fail \in {"none", "push"} : PathDrawPrepare(fail)
    \/ PathDrawUpdate(FZero)
    \/ \E rn \in 1..MaxRenderPaths : PathDrawDraw(rn)
    \/ PathDrawUninit

SpecRenderPaths == RenderPathsInit /\ [][RenderPathsNext]_vars

-----------------------------------------------------------------------------
(* A Text node with several effects, with sub-ranges and with random orders *)

UniformVec4(v) == [kind |-> "uniform", value |-> v]

\* a TextEffect over [0, 2] that drives alpha to 1/2 and the colour to red
HalfRedEffect(target) ==
    [AlphaEffect(target) EXCEPT !.start_time = FI(0), !.color_node = UniformVec4(Red)]

\* a TextEffect over [1, 3] that drives alpha to 1/4
QuarterEffect(target) ==
    [AlphaEffect(target) EXCEPT !.end_time = FI(3), !.alpha_node = UniformFloat(F(1, 4))]

\* a TextEffect over [1, 2] on the characters in a random order
RandomEffect(seed) ==
    [AlphaEffect(NGLI_TEXT_EFFECT_CHAR) EXCEPT !.random = TRUE, !.random_seed = seed]

\* a TextEffect over [1, 2] on the sub-range of the text from start_pos to end_pos
RangeEffect(target, start_pos, end_pos) ==
    [AlphaEffect(target) EXCEPT !.start_pos_node = UniformFloat(start_pos),
                                !.end_pos_node = UniformFloat(end_pos)]

Targets ==
    {NGLI_TEXT_EFFECT_CHAR, NGLI_TEXT_EFFECT_CHAR_NOSPACE, NGLI_TEXT_EFFECT_WORD,
     NGLI_TEXT_EFFECT_LINE, NGLI_TEXT_EFFECT_TEXT}

\* two effects whose time windows overlap, in both orders
OrderedEffectLists ==
    {<<HalfRedEffect(NGLI_TEXT_EFFECT_TEXT), QuarterEffect(NGLI_TEXT_EFFECT_CHAR)>>,
     <<QuarterEffect(NGLI_TEXT_EFFECT_CHAR), HalfRedEffect(NGLI_TEXT_EFFECT_TEXT)>>}

\* an effect in the order random() gives, then one in the order of the seed 2
RandomEffectLists == {<<RandomEffect(-1), RandomEffect(2)>>}

\* one effect on the empty sub-range [0, 0), on the second half or on the first half
RangeEffectLists ==
    {<<RangeEffect(target, r[1], r[2])>> :
        target \in Targets, r \in {<<FZero, FZero>>, <<F(1, 2), FOne>>, <<FZero, F(1, 2)>>}}

ManyEffectLists == OrderedEffectLists \cup RandomEffectLists \cup RangeEffectLists

MaxEffectsTextLen == 2

\* the texts of letters and spaces
EffectsTexts == TextsUpTo({LetterA, SP}, MaxEffectsTextLen)

\* init, live changes of the text and updates, none of which meets a failure
\* of the system
EffectsNext ==
    \/ \E text \in EffectsTexts, effects \in ManyEffectLists :
          TextInit(text, White, effects, "none")
    \/ \E text \in EffectsTexts : SetText(text)
    \/ \E t \in Times : TextUpdate(t, "none", "memmove")

SpecEffects == TextInitState /\ [][EffectsNext]_vars


-----------------------------------------------------------------------------
(* node_text.c: the timing windows of apply_effects_char(), _char_nospace()
   and _separator() in the float arithmetic of the code *)

\* the odd part of a mantissa and the power of two taken out of it
RECURSIVE OddPart(_)
OddPart(m) == IF m % 2 = 0 THEN OddPart(m \div 2) ELSE m

RECURSIVE TwoPart(_)
TwoPart(m) == IF m % 2 = 0 THEN TwoPart(m \div 2) + 1 ELSE 0

\* a duration of one element whatever the count and the overlap
f32_target_duration_mut(nb_elems, overlap) == Float1

\* const float target_duration = text_nbchr - range->overlap * (text_nbchr - 1);
f32_target_duration(nb_elems, overlap) ==
    F32Sub[F32FromInt[nb_elems], F32Mul[overlap, F32FromInt[nb_elems - 1]]]

\* const float target_timescale = (1. - range->overlap) / target_duration;
\* for the overlaps considered 1. - overlap is a float, so that the double
\* quotient rounded to float is the float quotient
f32_target_timescale(overlap, target_duration) ==
    F32Div[F32Sub[Float1, overlap], target_duration]

\* const float t_prv = target_timescale * c_pos;
f32_t_prv(target_timescale, c_pos) == F32Mul[target_timescale, F32FromInt[c_pos]]

\* const float t_nxt = t_prv + 1. / target_duration; for t_prv > 0.
\* With target_duration = a * 2^b, a odd, the sum is
\* (m * a + 2^k) / a * 2^(e - b - k + k) for t_prv = m * 2^e and k = -(e + b);
\* it is rounded once: for the durations considered (a < 32) the sum is either
\* a float or further from a tie of the float format than the error of the
\* double quotient and sum, so that the two double roundings change nothing
f32_t_nxt_sum(t_prv, a, b) ==
    LET k == -(t_prv.e + b)
        X == t_prv.m * a + 2 ^ k
    IN F32RoundHL[0, X \div a, ((X % a) * 2 ^ 24) \div a,
                  IF ((X % a) * 2 ^ 24) % a = 0 THEN 0 ELSE 1, t_prv.e - 24]

\* const float t_nxt = t_prv + 1. / target_duration;
f32_t_nxt(t_prv, target_duration) ==
    IF F32IsZero(t_prv) THEN F32Div[Float1, target_duration]
    ELSE f32_t_nxt_sum(t_prv, OddPart(target_duration.m),
                       target_duration.e + TwoPart(target_duration.m))

\* the largest element count considered
MaxElems == 8

\* the overlaps considered: 0, 1/4 and 1/2
Overlaps == {F32Zero(0), F32Dyadic[1, -2], F32Dyadic[1, -1]}

\* the head of apply_effects_char(): element count, overlap, and the two
\* constants computed before the loop
WindowsOf(nb_elems, overlap) ==
    [nb_elems |-> nb_elems, overlap |-> overlap,
     target_duration  |-> f32_target_duration(nb_elems, overlap),
     target_timescale |-> f32_target_timescale(overlap, f32_target_duration(nb_elems, overlap)),
     windows |-> <<>>]

WindowInitState ==
    /\ BackendIdle /\ TextIdle /\ PathIdle /\ NoiseIdle /\ RootsIdle /\ SkewIdle /\ PathDrawIdle
    /\ \E nb_elems \in 1..MaxElems, overlap \in Overlaps : window = WindowsOf(nb_elems, overlap)

\* one iteration of the loop of apply_effects_char(), for the element at
\* position c_pos
ApplyEffectsWindow(c_pos) ==
    /\ c_pos = Len(window.windows)
    /\ c_pos < window.nb_elems
    /\ window' = [window EXCEPT !.windows =
                     Append(@, [t_prv |-> f32_t_prv(window.target_timescale, c_pos),
                                t_nxt |-> f32_t_nxt(f32_t_prv(window.target_timescale, c_pos),
                                                    window.target_duration)])]
    /\ UNCHANGED <<backendVars, textVars, pathVars, noiseVars, rootsVars, skewVars, pathdrawVars>>

WindowNext == \E c_pos \in 0..MaxElems : ApplyEffectsWindow(c_pos)

SpecWindows == WindowInitState /\ [][WindowNext]_vars

-----------------------------------------------------------------------------
(* node_skew.c: the Skew node with its child and its optional animation *)

\* the vec3 values considered for factors, axis and the animation
SkewVectors == {<<0, 0, 0>>, <<1, 0, 0>>, <<0, 1, 0>>}

\* ngli_mat4_skew(matrix, factors, axis): the matrix is kept as its arguments
ngli_mat4_skew(factors, axis) == [factors |-> factors, axis |-> axis]

\* a new Skew node: its parameters, the matrix zeroed; anim is NULL or the
\* animation node with its current vector
NewSkew(factors, axis, anim) ==
    [trf |-> [matrix |-> [factors |-> <<0, 0, 0>>, axis |-> <<0, 0, 0>>], child |-> 1],
     factors |-> factors, axis |-> axis, anim |-> anim]

\* s->anim: no node (NULL), or the animation node with its vector
NoAnim == [node |-> NULL, vector |-> <<0, 0, 0>>]
Anim(vector) == [node |-> 1, vector |-> vector]

\* update_trf_matrix()
update_trf_matrix(s, factors) ==
    [s EXCEPT !.trf.matrix = ngli_mat4_skew(factors, s.axis)]

\* skew_init(). Result: [ret, s]
skew_init(s) ==
    IF s.axis = <<0, 0, 0>> THEN [ret |-> NGL_ERROR_INVALID_ARG, s |-> s]
    ELSE IF s.anim = NoAnim THEN [ret |-> NGL_OK, s |-> update_trf_matrix(s, s.factors)]
    ELSE [ret |-> NGL_OK, s |-> s]

\* update_factors(), once the framework wrote the factors. Result: [ret, s]
update_factors(s) ==
    IF s.anim # NoAnim THEN [ret |-> NGL_ERROR_INVALID_USAGE, s |-> s]
    ELSE [ret |-> NGL_OK, s |-> update_trf_matrix(s, s.factors)]

\* a skew_update() that goes on to the child after a failure of the animation
skew_update_mut(s, t, anim_ret, vector, child_ret) ==
    IF s.anim # NoAnim
    THEN [ret |-> child_ret,
          s |-> IF anim_ret # NGL_OK THEN s
                ELSE update_trf_matrix([s EXCEPT !.anim = Anim(vector)], vector),
          log |-> <<[node |-> "anim", t |-> t, matrix |-> s.trf.matrix],
                    [node |-> "child", t |-> t,
                     matrix |-> IF anim_ret # NGL_OK THEN s.trf.matrix
                                ELSE ngli_mat4_skew(vector, s.axis)]>>]
    ELSE [ret |-> child_ret, s |-> s,
          log |-> <<[node |-> "child", t |-> t, matrix |-> s.trf.matrix]>>]

\* skew_update(). ngli_node_update(anim_node, t) returns anim_ret and, when
\* it succeeds, leaves vector in the animation; ngli_node_update(child, t)
\* returns child_ret. Result: [ret, s, log], log the ngli_node_update()
\* calls in order, each with the matrix of the node when the call is made
skew_update(s, t, anim_ret, vector, child_ret) ==
    IF s.anim # NoAnim
    THEN IF anim_ret # NGL_OK
         THEN [ret |-> anim_ret, s |-> s,
               log |-> <<[node |-> "anim", t |-> t, matrix |-> s.trf.matrix]>>]
         ELSE [ret |-> child_ret,
               s |-> update_trf_matrix([s EXCEPT !.anim = Anim(vector)], vector),
               log |-> <<[node |-> "anim", t |-> t, matrix |-> s.trf.matrix],
                         [node |-> "child", t |-> t,
                          matrix |-> ngli_mat4_skew(vector, s.axis)]>>]
    ELSE [ret |-> child_ret, s |-> s,
          log |-> <<[node |-> "child", t |-> t, matrix |-> s.trf.matrix]>>]

SkewTimes == {0, 1, 2}

\* the results of ngli_node_update() on the animation and on the child
UpdateResults == {NGL_OK, NGL_ERROR_MEMORY}

SkewCall(state, op, ret, t) == [state |-> state, op |-> op, ret |-> ret, t |-> t]

SkewInitState ==
    /\ BackendIdle /\ TextIdle /\ PathIdle /\ NoiseIdle /\ RootsIdle /\ PathDrawIdle
    /\ WindowIdle
    /\ skew_priv = NewSkew(<<0, 0, 0>>, <<1, 0, 0>>, NoAnim)
    /\ skew_node = SkewCall("created", "none", NGL_OK, 0)
    /\ skew_log = <<>>

notSkew == <<backendVars, textVars, pathVars, noiseVars, rootsVars, pathdrawVars, windowVars>>

\* skew_init() of a new node with its parameters
SkewInit(factors, axis, anim) ==
    /\ skew_node.state \in {"created", "init_failed"}
    /\ \E r \in {skew_init(NewSkew(factors, axis, anim))} :
          /\ skew_priv' = r.s
          /\ skew_node' = SkewCall(IF r.ret = NGL_OK THEN "initialized" ELSE "init_failed",
                                   "init", r.ret, 0)
    /\ skew_log' = <<>>
    /\ UNCHANGED notSkew

\* a live change of factors: the framework writes the field, then calls
\* update_factors()
SkewSetFactors(factors) ==
    /\ skew_node.state = "initialized"
    /\ \E r \in {update_factors([skew_priv EXCEPT !.factors = factors])} :
          /\ skew_priv' = r.s
          /\ skew_node' = SkewCall("initialized", "set_factors", r.ret, skew_node.t)
    /\ skew_log' = <<>>
    /\ UNCHANGED notSkew

\* skew_update(node, t)
SkewUpdate(t, anim_ret, vector, child_ret) ==
    /\ skew_node.state = "initialized"
    /\ \E r \in {skew_update(skew_priv, t, anim_ret, vector, child_ret)} :
          /\ skew_priv' = r.s
          /\ skew_log' = r.log
          /\ skew_node' = SkewCall("initialized", "update", r.ret, t)
    /\ UNCHANGED notSkew

\* the node is released; a new one can be created
SkewUninit ==
    /\ skew_node.state = "initialized"
    /\ skew_priv' = NewSkew(<<0, 0, 0>>, <<1, 0, 0>>, NoAnim)
    /\ skew_node' = SkewCall("created", "uninit", NGL_OK, 0)
    /\ skew_log' = <<>>
    /\ UNCHANGED notSkew

SkewNext ==
    \/ \E factors \in SkewVectors, axis \in SkewVectors,
          anim \in {NoAnim} \cup {Anim(v) : v \in SkewVectors} :
          SkewInit(factors, axis, anim)
    \/ \E factors \in SkewVectors : SkewSetFactors(factors)
    \/ \E t \in SkewTimes, anim_ret \in UpdateResults, vector \in SkewVectors,
          child_ret \in UpdateResults :
          SkewUpdate(t, anim_ret, vector, child_ret)
    \/ SkewUninit

SpecSkew == SkewInitState /\ [][SkewNext]_vars

-----------------------------------------------------------------------------
(* Properties of the text backend *)

\* the string split at its newlines, computed from the positions of the newlines
NewlinesOf(str) == {i \in 1..Len(str) : str[i] = NL}
LineStart(str, i) == SetMax({0} \cup {j \in NewlinesOf(str) : j < i}) + 1
NbCols(str) == SetMax({0} \cup {i - LineStart(str, i) + 1 : i \in (1..Len(str)) \ NewlinesOf(str)})
NbRows(str) == Cardinality(NewlinesOf(str)) + 1
NbChars(str) == Len(str) - Cardinality(NewlinesOf(str))

BuiltinSetStringDone ==
    /\ call.op = "set_string"
    /\ call.ret = NGL_OK
    /\ text_ctx.config.fontfile = NULL

\* C6: with the built-in font, a successful set_string leaves one character per
\* non-newline character of the string, a width of cols * NGLI_FONT_W + 2 * padding
\* and a height of rows * NGLI_FONT_H + 2 * padding; a second set_string of the
\* same string leaves the same characters and the same sizes.
C6_BuiltinLayout ==
    BuiltinSetStringDone =>
        /\ Len(text_ctx.chars) = NbChars(call.str)
        /\ text_ctx.width  = NbCols(call.str) * NGLI_FONT_W + 2 * text_ctx.config.padding
        /\ text_ctx.height = NbRows(call.str) * NGLI_FONT_H + 2 * text_ctx.config.padding
        /\ (prev_layout.valid /\ prev_layout.str = call.str) =>
               /\ text_ctx.chars  = prev_layout.chars
               /\ text_ctx.width  = prev_layout.width
               /\ text_ctx.height = prev_layout.height

\* C6 witness: a multi-line string laid out twice in a row with a padding
C6_Witness ==
    /\ BuiltinSetStringDone
    /\ prev_layout.valid
    /\ prev_layout.str = call.str
    /\ NbRows(call.str) = 2
    /\ NbChars(call.str) = 2
    /\ text_ctx.config.padding = 3

\* C2 as stated: for "ab cd ef" the word target yields 3 elements and the
\* char_nospace target yields 6
C2_WordAndNoSpaceCounts ==
    (BuiltinSetStringDone /\ call.str = StrAbCdEf) =>
        /\ get_nb_elems(text_ctx.chars, NGLI_TEXT_EFFECT_WORD) = 3
        /\ get_nb_elems(text_ctx.chars, NGLI_TEXT_EFFECT_CHAR_NOSPACE) = 6

\* what the code yields for "ab cd ef": no character carries a category, so the
\* text is one word of 8 characters without space
C2_Observed ==
    /\ BuiltinSetStringDone
    /\ call.str = StrAbCdEf
    /\ get_nb_elems(text_ctx.chars, NGLI_TEXT_EFFECT_WORD) = 1
    /\ get_nb_elems(text_ctx.chars, NGLI_TEXT_EFFECT_CHAR_NOSPACE) = 8

-----------------------------------------------------------------------------
(* Properties of the Text node *)

\* text_update() has just returned success
TextUpdated ==
    /\ text_node.state = "initialized"
    /\ text_node.op = "update"
    /\ text_node.ret = NGL_OK

\* the number of characters of the current layout
NbTextChars == Len(text_ctx.chars)

\* the effect data are allocated and laid out for the current character count
LaidOutForCurrent ==
    /\ NbTextChars > 0
    /\ priv.chars_data_default # NULL
    /\ priv.chars_data_size = NbTextChars * CHR_DATA_FLOATS
    /\ priv.chars_data = NbTextChars * CHR_DATA_FLOATS
    /\ priv.chr = ChrPointers(assign_chr_data_pointers(priv.chars_data, NbTextChars))

\* the alpha of every character, as handed to draw, is v
AllAlpha(v) == \A i \in 0..(NbTextChars - 1) : priv.mem[priv.chr.alpha + i] = v

OneTextEffect == priv.effect_nodes = <<AlphaEffect(NGLI_TEXT_EFFECT_TEXT)>>

\* C1: with one effect on the whole text driving alpha, after update(t) the
\* alpha of every character is the effect's value when start <= t < end and
\* the default otherwise (stated on effect data laid out for the current text)
C1_HalfOpenWindow ==
    (TextUpdated /\ OneTextEffect /\ LaidOutForCurrent) =>
        LET e == priv.effect_nodes[1]
        IN IF FLe(e.start_time, text_node.t) /\ FLt(text_node.t, e.end_time)
           THEN AllAlpha(e.alpha_node.value)
           ELSE AllAlpha(FOne)

\* what the code does at t = end: the effect is applied
C1_AppliedAtEnd ==
    /\ TextUpdated /\ OneTextEffect /\ LaidOutForCurrent
    /\ text_node.t = priv.effect_nodes[1].end_time
    /\ AllAlpha(priv.effect_nodes[1].alpha_node.value)

\* C3: after a successful update of a text with characters, the default and
\* the working effect data are sized and laid out for the current character
\* count, and the working data sit where the pointers handed to draw point
C3_BuffersFollowText == (TextUpdated /\ NbTextChars > 0) => LaidOutForCurrent

\* what the code does when the text shrinks: the working data move, the size
\* and the pointers handed to draw stay those of the longer text
C3_StaleAfterShrink ==
    /\ TextUpdated /\ NbTextChars > 0
    /\ priv.chars_data = NbTextChars * CHR_DATA_FLOATS
    /\ priv.chars_data_size > NbTextChars * CHR_DATA_FLOATS
    /\ priv.chr.transform > priv.chars_data

\* the default fill colour of character i, in the layout of the current text
DefaultColor(i) ==
    [k \in 0..3 |-> priv.mem[assign_chr_data_pointers(0, NbTextChars).color + i * 4 + k]]

\* C4: after a successful update the default fill colour of every character is
\* the node's fg_color, also when fg_color alone was changed since the last
\* update (stated on effect data laid out for the current text)
C4_DefaultColorFollowsFgColor ==
    (TextUpdated /\ LaidOutForCurrent) =>
        \A i \in 0..(NbTextChars - 1) : DefaultColor(i) = priv.fg_color

\* what the code does: the defaults keep the colour of the last layout
C4_StaleColor ==
    /\ TextUpdated /\ LaidOutForCurrent
    /\ \A i \in 0..(NbTextChars - 1) : DefaultColor(i) # priv.fg_color

IsSpace(c) == c \in {SP, NL}

\* the number of elements a text has for a target: its characters that are not
\* spaces, its maximal runs of such characters, its lines holding a character
ElementsOf(target, text) ==
    IF target = NGLI_TEXT_EFFECT_CHAR_NOSPACE
    THEN Cardinality({i \in 1..Len(text) : ~IsSpace(text[i])})
    ELSE IF target = NGLI_TEXT_EFFECT_WORD
    THEN Cardinality({i \in 1..Len(text) :
                        ~IsSpace(text[i]) /\ (i = 1 \/ IsSpace(text[i - 1]))})
    ELSE Cardinality({i \in 1..Len(text) :
                        text[i] # NL /\ (i = 1 \/ text[i - 1] = NL)})

\* the layout of the current text has just succeeded, at init or at update
LayoutSucceeded ==
    /\ text_node.state = "initialized"
    /\ text_node.op \in {"init", "update"}
    /\ text_node.ret = NGL_OK
    /\ ~priv.live_changed

\* C5: with an effect on char_nospace, word or line, the layout of a text
\* whose characters make no element of that target does not succeed
C5_ZeroElementsFail ==
    (LayoutSucceeded /\ NbTextChars > 0 /\ Len(priv.effect_nodes) = 1) =>
        ElementsOf(priv.effect_nodes[1].target, priv.text) > 0

\* what the code does: the layout of a text of spaces succeeds, with a
\* positive count of elements
C5_SpacesAccepted ==
    /\ LayoutSucceeded /\ NbTextChars > 0 /\ Len(priv.effect_nodes) = 1
    /\ ElementsOf(priv.effect_nodes[1].target, priv.text) = 0
    /\ priv.element_counts[1] > 0

\* the last layout of the node's text, at init or at update, returned an error
LayoutFailed ==
    /\ text_node.state \in {"init_failed", "update_failed"}
    /\ text_node.op \in {"init", "update"}

\* C21: when the layout of the text returns an error, none of the five scratch
\* arrays of update_character_geometries() is left allocated
C21_ScratchFreedOnFailure == LayoutFailed => scratch_live = 0

\* what the code does when the element positions or the effect data cannot be
\* allocated: the five scratch arrays are left allocated
C21_ScratchLeaked == LayoutFailed /\ scratch_live = 5

\* the five glyph buffers of the node
GlyphBuffers ==
    <<priv.vertices, priv.uvcoords, priv.indices, priv.glyph_rects, priv.glyph_sizes>>

\* no foreground resource is held: pipelines and programs of the descriptors,
\* glyph buffers, element positions and effect data
FgReleased ==
    /\ \A i \in DOMAIN priv.pipeline_descs :
          ~priv.pipeline_descs[i].fg.pipeline /\ ~priv.pipeline_descs[i].fg.crafter
    /\ \A k \in 1..5 : GlyphBuffers[k] = NullBuffer
    /\ \A i \in DOMAIN priv.element_positions : priv.element_positions[i] = <<>>
    /\ priv.chars_data = NULL
    /\ priv.chars_data_default = NULL
    /\ priv.chars_data_size = 0

\* text_draw() has just run
TextDrawn == text_node.state = "initialized" /\ text_node.op = "draw"

\* C22: while the text laid out has no character, at init or after a live
\* change, no foreground resource is held, nb_indices is 0 and a draw issues
\* the background draw only
C22_EmptyTextBackgroundOnly ==
    (text_node.state = "initialized" /\ NbTextChars = 0) =>
        /\ FgReleased
        /\ priv.nb_indices = 0
        /\ TextDrawn => drawn = [NoDraw EXCEPT !.bg = TRUE]

\* C22 witness: the draw of a text changed to the empty text after a text with
\* characters was laid out for an effect
C22_Witness ==
    /\ TextDrawn /\ NbTextChars = 0
    /\ Len(priv.element_counts) = 1 /\ priv.element_counts[1] > 0
    /\ drawn.bg /\ ~drawn.fg

\* the ids 0, 1, ..., n - 1 in this order
IdsInOrder(n) == [k \in 1..n |-> k - 1]

\* the Text node holds descriptors: it is initialized, or one of its calls failed
TextPrepared ==
    text_node.state \in {"initialized", "prepare_failed", "update_failed"}

\* the PathDraw node holds descriptors
PathDrawPrepared == pathdraw_node.state \in {"initialized", "prepare_failed"}

\* C23: in the Text node and in the PathDraw node, the render paths prepared
\* so far have the ids 0, 1, 2, ... in the order of their prepare calls, and
\* the list holds one descriptor per render path, so that every id is an
\* index of the list, whatever updates, live changes and draws happened since
C23_RenderPathIds ==
    /\ TextPrepared =>
          text_rnodes = IdsInOrder(Len(priv.pipeline_descs))
    /\ PathDrawPrepared =>
          pathdraw_node.rnodes = IdsInOrder(Len(pathdraw_priv.pipeline_descs))

\* C23 witness: both nodes have two render paths, the text was changed to a
\* shorter one and laid out after the prepares, and both nodes draw
C23_Witness ==
    /\ TextDrawn /\ text_rnodes = <<0, 1>> /\ Len(priv.pipeline_descs) = 2
    /\ NbTextChars = 1 /\ priv.pipeline_descs[2].fg.text_nbchr = 2
    /\ pathdraw_node.op = "draw" /\ pathdraw_node.rnodes = <<0, 1>>
    /\ pathdraw_node.drawn = pathdraw_priv.pipeline_descs[2].pipeline
    /\ pathdraw_node.drawn # NULL

\* the effect is applied at the time of the last update
EffectActive(e) == ~effect_skipped(e, text_node.t)

\* every effect of the node is on the whole text or on its characters, without
\* sub-range: an active effect writes every character
WholeTextEffects ==
    \A i \in 1..Len(priv.effect_nodes) :
        /\ priv.effect_nodes[i].target \in {NGLI_TEXT_EFFECT_TEXT, NGLI_TEXT_EFFECT_CHAR}
        /\ priv.effect_nodes[i].start_pos_node = NoNode
        /\ priv.effect_nodes[i].end_pos_node = NoNode

\* the active effects that have a node for alpha, for the fill colour
AlphaDrivers ==
    {i \in 1..Len(priv.effect_nodes) :
        EffectActive(priv.effect_nodes[i]) /\ priv.effect_nodes[i].alpha_node # NoNode}
ColorDrivers ==
    {i \in 1..Len(priv.effect_nodes) :
        EffectActive(priv.effect_nodes[i]) /\ priv.effect_nodes[i].color_node # NoNode}

LastOf(S) == CHOOSE i \in S : \A j \in S : j <= i

\* the alpha, the fill colour and the blur of character c as handed to draw
DrawnAlpha(c) == priv.mem[priv.chr.alpha + c]
DrawnColor(c) == [k \in 0..3 |-> priv.mem[priv.chr.color + c * 4 + k]]
DrawnBlur(c)  == priv.mem[priv.chr.blur + c]

\* C24: after an update, for every character, the alpha and the fill colour
\* handed to draw are those of the last active effect of the list that has a
\* node for them, and the defaults when no active effect has one; the blur,
\* which no effect drives, is its default
C24_LastActiveEffectWins ==
    (TextUpdated /\ NbTextChars > 0 /\ WholeTextEffects) =>
        \A c \in 0..(NbTextChars - 1) :
            /\ DrawnAlpha(c) = IF AlphaDrivers = {} THEN FOne
                               ELSE priv.effect_nodes[LastOf(AlphaDrivers)].alpha_node.value
            /\ DrawnColor(c) = IF ColorDrivers = {} THEN DefaultColor(c)
                               ELSE priv.effect_nodes[LastOf(ColorDrivers)].color_node.value
            /\ DrawnBlur(c) = FZero

\* the tables of the effects have just been built by a layout that succeeded
TablesBuilt ==
    /\ LayoutSucceeded /\ NbTextChars > 0
    /\ \A i \in 1..Len(priv.effect_nodes) :
          Len(priv.element_positions[i]) = get_nb_elems(text_ctx.chars,
                                                        priv.effect_nodes[i].target)

\* the order the seed gives to count elements, whatever random() returned before
SeededOrder(seed, count) ==
    shuffle_positions([j \in 1..count |-> j - 1], count, 0, srandom(seed)).positions

\* C25: the table of element positions a layout builds for an effect is a
\* permutation of 0..count-1, the identity when random is off and, when random
\* is on with a seed >= 0, the one order of that seed and that count
C25_PositionsArePermutation ==
    TablesBuilt =>
        \A i \in 1..Len(priv.effect_nodes) :
            LET table == priv.element_positions[i]
                count == priv.element_counts[i]
                effect == priv.effect_nodes[i]
            IN /\ Len(table) = count
               /\ {table[j] : j \in 1..count} = 0..(count - 1)
               /\ ~effect.random => table = [j \in 1..count |-> j - 1]
               /\ (effect.random /\ effect.random_seed >= 0) =>
                      table = SeededOrder(effect.random_seed, count)

\* C25 witness: two characters in two random orders: the effect without seed
\* left the identity at this build, the effect of seed 2 its swap, and
\* random() is not in the state the seed sets
C25_Witness ==
    /\ TablesBuilt
    /\ priv.effect_nodes = <<RandomEffect(-1), RandomEffect(2)>>
    /\ priv.element_positions = <<(<<0, 1>>), (<<1, 0>>)>>

\* the node has one effect, active at the time of the last update, and the
\* data handed to draw are laid out for the current text
OneActiveEffect ==
    /\ TextUpdated /\ LaidOutForCurrent
    /\ Len(priv.effect_nodes) = 1
    /\ EffectActive(priv.effect_nodes[1])

\* the sub-range of characters of the node's effect at the last update
ActiveRange ==
    set_target_range(text_ctx.chars, priv.effect_nodes[1],
                     NGLI_LINEAR_INTERP(priv.effect_nodes[1].start_time,
                                        priv.effect_nodes[1].end_time, text_node.t))

\* C27: an active effect whose sub-range of characters is empty leaves the alpha
\* of every character at its default, whatever its target, and an active
\* effect leaves the alpha of the characters below start_chr at its default
C27_EmptyRangeModifiesNothing ==
    OneActiveEffect =>
        /\ ActiveRange.end_chr <= ActiveRange.start_chr =>
              \A c \in 0..(NbTextChars - 1) : DrawnAlpha(c) = FOne
        /\ \A c \in 0..(NbTextChars - 1) : c < ActiveRange.start_chr => DrawnAlpha(c) = FOne

\* what the code does for the targets word and line: the first element that
\* starts at start_chr or after is modified, though the sub-range is empty
C27_ElementModified ==
    /\ OneActiveEffect
    /\ ActiveRange.end_chr <= ActiveRange.start_chr
    /\ priv.effect_nodes[1].target \in {NGLI_TEXT_EFFECT_WORD, NGLI_TEXT_EFFECT_LINE}
    /\ \E c \in 0..(NbTextChars - 1) : DrawnAlpha(c) = priv.effect_nodes[1].alpha_node.value

\* apply_effects_char(): the indices c at which element_positions[effect_id] is read
positions_read_char(range) == range.start_chr..(range.end_chr - 1)

\* apply_effects_char_nospace(): the values c_id takes at the reads, from
\* character c with c_id
RECURSIVE positions_read_char_nospace(_, _, _, _)
positions_read_char_nospace(chars, range, c, c_id) ==
    IF c >= range.end_chr THEN {}
    ELSE IF chars[c + 1].category = NGLI_TEXT_CHAR_CATEGORY_SPACE
    THEN positions_read_char_nospace(chars, range, c + 1, c_id)
    ELSE {c_id} \cup positions_read_char_nospace(chars, range, c + 1, c_id + 1)

\* apply_effects_separator(): the values elem_id takes at the reads, from elem
RECURSIVE positions_read_separator(_, _, _, _, _)
positions_read_separator(chars, range, separator, elem, elem_id) ==
    LET next == get_next_elem(chars, elem, separator)
    IN IF next.start = -1 THEN {}
       ELSE IF next.start >= range.start_chr /\ next.end >= range.end_chr THEN {elem_id}
       ELSE {elem_id} \cup positions_read_separator(chars, range, separator, next, elem_id + 1)

\* the indices at which apply_effects() reads the table of an effect
positions_read(chars, effect, range) ==
    CASE effect.target = NGLI_TEXT_EFFECT_CHAR -> positions_read_char(range)
      [] effect.target = NGLI_TEXT_EFFECT_CHAR_NOSPACE ->
             positions_read_char_nospace(chars, range, range.start_chr, range.start_chr)
      [] effect.target = NGLI_TEXT_EFFECT_WORD ->
             positions_read_separator(chars, range, NGLI_TEXT_CHAR_CATEGORY_SPACE,
                                      [start |-> range.start_chr, end |-> 0], 0)
      [] effect.target = NGLI_TEXT_EFFECT_LINE ->
             positions_read_separator(chars, range, NGLI_TEXT_CHAR_CATEGORY_LINEBREAK,
                                      [start |-> range.start_chr, end |-> 0], 0)
      [] effect.target = NGLI_TEXT_EFFECT_TEXT -> {}

\* the sub-range of effect i at the last update
RangeOf(i) ==
    set_target_range(text_ctx.chars, priv.effect_nodes[i],
                     NGLI_LINEAR_INTERP(priv.effect_nodes[i].start_time,
                                        priv.effect_nodes[i].end_time, text_node.t))

\* C30: when an update applied the effects to a text with characters, every
\* index at which the table of an active effect was read is an index of that
\* table, and the element count of the effect is the number of elements its
\* target has in the current text
C30_PositionsReadInTable ==
    (TextUpdated /\ NbTextChars > 0) =>
        \A i \in 1..Len(priv.effect_nodes) :
            EffectActive(priv.effect_nodes[i]) =>
                /\ positions_read(text_ctx.chars, priv.effect_nodes[i], RangeOf(i))
                      \subseteq 0..(Len(priv.element_positions[i]) - 1)
                /\ priv.element_counts[i] = get_nb_elems(text_ctx.chars,
                                                         priv.effect_nodes[i].target)

\* the last operation on the initialized Text node succeeded
TextSucceeded == text_node.state = "initialized" /\ text_node.ret = NGL_OK

\* every descriptor holds a foreground pipeline and its program
FgPipelinesHeld ==
    \A i \in DOMAIN priv.pipeline_descs :
        priv.pipeline_descs[i].fg.pipeline /\ priv.pipeline_descs[i].fg.crafter

\* the five glyph buffers exist and hold the upload of the current geometry
GlyphBuffersCurrent ==
    /\ \A k \in 1..5 : GlyphBuffers[k].created
    /\ priv.indices.uploaded = priv.nb_indices
    /\ priv.indices.uploaded <= priv.indices.size

\* C29: after each successful operation nb_indices is 6 times the number of
\* characters of the current text, and while nb_indices > 0 every descriptor
\* holds a foreground pipeline and the glyph buffers hold the current
\* geometry, so that the foreground draw has a pipeline to use
C29_ForegroundDrawSafe ==
    TextSucceeded =>
        /\ priv.nb_indices = 6 * NbTextChars
        /\ priv.nb_indices > 0 => (FgPipelinesHeld /\ GlyphBuffersCurrent)
        /\ (TextDrawn /\ drawn.fg) => FgPipelinesHeld

\* C29 witness: the foreground draw of a text that grew to two characters
\* after it was prepared, with the pipeline of the descriptor rebuilt for it
C29_Witness ==
    /\ TextDrawn /\ drawn.fg /\ drawn.nb_indices = 12
    /\ NbTextChars = 2
    /\ Len(priv.pipeline_descs) >= 1
    /\ priv.pipeline_descs[1].fg.pipeline
    /\ priv.pipeline_descs[1].fg.text_nbchr = 2
    /\ priv.indices.size = 12

-----------------------------------------------------------------------------
(* Properties of the Path node *)

\* ngli_path_evaluate() has just returned
PathEvaluated == path_node.state = "initialized" /\ path_node.op = "evaluate"

\* C7: whatever hints the previous calls left, the point ngli_path_evaluate()
\* returns for a distance is the point it returns for that distance with
\* current_pos = current_knot = 0
C7_HintIndependence ==
    PathEvaluated =>
        path_node.dst =
            ngli_path_evaluate([path_priv EXCEPT !.current_pos = 0, !.current_knot = 0],
                               path_node.distance).dst

\* the bezier path from (0,0,0) to (1,0,0) with controls (1/3,0,0) and (2/3,0,0)
StraightLine ==
    /\ path_priv.mode = PATH_MODE_BEZIER3
    /\ path_priv.points = <<PathPoint(FZero), PathPoint(FOne)>>
    /\ path_priv.controls = <<PathPoint(F(1, 3)), PathPoint(F(2, 3))>>

PathAdvances ==
    /\ path_node.state = "initialized" /\ path_priv.lut_count >= 3
    /\ \A i \in 1..(path_priv.lut_count - 1) :
          FLt(path_priv.arc_distances_normalized[i], path_priv.arc_distances_normalized[i + 1])

\* C9: after a successful path_init() the start time of every knot lies in
\* [0, 1] (stated on the paths of 3 samples or more whose samples all differ)
C9_KnotTimesInUnitRange ==
    PathAdvances =>
        \A i \in 1..Len(path_priv.knots) :
            /\ FLe(FZero, path_priv.knots[i].start_time)
            /\ FLe(path_priv.knots[i].start_time, FOne)

\* what the code does: the distance 1 of the last knot maps to
\* (nb_samples - 1) / (nb_samples - 2)
C9_LastKnotAboveOne ==
    /\ PathAdvances
    /\ path_priv.arc_distances_normalized[path_priv.lut_count] = FOne
    /\ path_priv.knots[Len(path_priv.knots)].start_time =
           F(path_priv.lut_count - 1, path_priv.lut_count - 2)

\* C10: path_init() returns NGL_ERROR_INVALID_ARG exactly for the parameters
\* with tension 0, precision 0, fewer than 2 points or a wrong count of
\* controls, then with nothing allocated; for all other parameters it returns
\* success when no allocation fails
C10_InitValidation ==
    path_node.op = "init" =>
        /\ path_node.ret = NGL_ERROR_INVALID_ARG <=> path_params_invalid(path_priv)
        /\ path_node.ret = NGL_ERROR_INVALID_ARG =>
               /\ path_priv.allocs = {}
               /\ path_priv.knots = <<>> /\ path_priv.lut = <<>>
               /\ path_priv.arc_distances = <<>>
               /\ path_priv.arc_distances_normalized = <<>>
               /\ path_priv.catmull_controls = <<>>
        /\ (~path_params_invalid(path_priv) /\ ~path_node.alloc_failed) =>
               path_node.ret = NGL_OK

\* what the code does with a negative precision that makes a table of no
\* sample: the parameters are accepted and the tables are overrun
C10_NegativePrecisionCrash ==
    /\ path_node.op = "init" /\ path_node.ret = "SIGSEGV"
    /\ path_priv.precision < 0 /\ path_priv.lut_count = 0

\* path_init() went past the validation of the parameters and allocated the
\* three tables
PathTablesAllocated ==
    /\ path_node.op \in {"init", "evaluate"}
    /\ path_node.ret # NGL_ERROR_INVALID_ARG
    /\ ~path_node.alloc_failed

\* C28: once path_init() accepted the parameters, the tables have 3 samples or
\* more, so that the denominator of distance_to_time(), the number of samples
\* minus 2, is strictly positive at init and at every evaluate
C28_LutSamplesAtLeastThree ==
    PathTablesAllocated => path_priv.arc_distances_normalized_count - 2 > 0

\* what the code does with one segment of precision 1: 2 samples, the
\* denominator is 0
C28_TwoSamples ==
    /\ PathTablesAllocated
    /\ path_priv.precision = 1 /\ Len(path_priv.points) = 2
    /\ path_priv.arc_distances_normalized_count = 2

-----------------------------------------------------------------------------
(* Properties of the Noise node *)

\* noise_update() has just returned
NoiseUpdated == noise_node.state = "initialized" /\ noise_node.op = "update"

\* the blends the parameter descriptions give
Hermite3(t) == FSub(FMul(FI(3), FMul(t, t)), FMul(FI(2), FMul(FMul(t, t), t)))
Hermite5(t) ==
    LET t3 == FMul(FMul(t, t), t)
    IN FAdd(FSub(FMul(FI(6), FMul(t3, FMul(t, t))), FMul(FI(15), FMul(t3, t))),
            FMul(FI(10), t3))
DocumentedBlend(function, t) == IF function = NOISE_CUBIC THEN Hermite3(t) ELSE Hermite5(t)

BlendPoints == {FZero, F(1, 4), F(1, 2), F(3, 4)}

\* the function of the code that computes the blend documented for a choice
DocumentedFunc(function) ==
    CHOOSE func \in {"curve_cubic", "curve_quintic"} :
        \A t \in BlendPoints : interp_func(func, t) = DocumentedBlend(function, t)

\* C11: the value an update leaves is the one computed with the blend documented
\* for the node's function: 3t^2-2t^3 for cubic, 6t^5-15t^4+10t^3 for quintic
C11_DocumentedBlend ==
    NoiseUpdated =>
        noise_priv.scalar =
            noise_update([noise_priv EXCEPT !.interp_func = DocumentedFunc(noise_priv.function)],
                         noise_node.t).s.scalar

\* C12: with one octave or more, the sum of the amplitudes an update divides by
\* is not zero and the value left is sum / max_amp
C12_MaxAmpNonZero ==
    (NoiseUpdated /\ noise_priv.octaves >= 1) =>
        /\ noise_node.max_amp # FZero
        /\ IsFinite(noise_priv.scalar)
        /\ noise_priv.scalar = FDiv(noise_node.sum, noise_node.max_amp)

-----------------------------------------------------------------------------
(* Properties of the root finder *)

RootsSorted == roots_call # <<>> /\ roots_call.state = "sorted"

\* a root reported in units of 2^-20, truncated (the polynomial's roots stay below 2^10)
RootFixed(x) == IF x.s = 1 THEN -F32Fixed(x, 20) ELSE F32Fixed(x, 20)

\* |x - r| < 0.001 for an integer r, to 2^-20
NearRoot(x, r) ==
    /\ F32IsNum(x)
    /\ (x.m = 0 \/ x.e < -13)
    /\ RootFixed(x) - r * 2 ^ 20 < 1048
    /\ r * 2 ^ 20 - RootFixed(x) < 1048

\* the roots reported are, in order, within 0.001 of the list
RootsNear(list) ==
    /\ roots_call.nroots = Len(list)
    /\ \A i \in 1..Len(list) : NearRoot(roots_call.roots[i], list[i])

RECURSIVE Distinct(_)
Distinct(s) ==
    IF Len(s) <= 1 THEN s
    ELSE IF s[1] = s[2] THEN Distinct(Tail(s))
    ELSE <<s[1]>> \o Distinct(Tail(s))

\* C13: the roots reported for a polynomial of known real roots are as many as
\* its real roots (counted once each, or with their multiplicity) and, sorted,
\* each within 0.001 of the true value
C13_RootsOfKnownPolynomials ==
    RootsSorted => (RootsNear(Distinct(roots_call.known)) \/ RootsNear(roots_call.known))

IsCubic == roots_call.coeffs[1] = 0 /\ roots_call.coeffs[2] = 0 /\ roots_call.coeffs[3] # 0

SimpleAndDouble == Len(roots_call.known) = 3 /\ Len(Distinct(roots_call.known)) = 2

\* C14 as stated: every cubic with one simple and one double real root has 3
\* roots reported, the double root twice
C14_DoubleRootListedTwice ==
    (RootsSorted /\ IsCubic /\ SimpleAndDouble) => RootsNear(roots_call.known)

TableCubic == roots_call.coeffs = <<0, 0, 1, -5, 8, -4>>

\* C14 amended: (x-1)(x-2)^2 of the test table has 3 roots reported, within
\* 0.001 of 1, 2, 2; a cubic with one simple and one double root has 1, 2 or 3
C14_TableCubicListedTwice ==
    /\ (RootsSorted /\ TableCubic) => RootsNear(<<1, 2, 2>>)
    /\ (RootsSorted /\ IsCubic /\ SimpleAndDouble) => roots_call.nroots \in 1..3

C14_Witness == RootsSorted /\ TableCubic /\ roots_call.nroots = 3

-----------------------------------------------------------------------------
(* Properties of the PathDraw node *)

\* C20: once pathdraw_uninit() has run, no GPU object the node created is live:
\* the vertex buffer of every prepare, the pipeline and the crafter of every
\* descriptor and the distance map texture of the init are released
C20_PathDrawReleasesAll ==
    pathdraw_node.state = "uninitialized" => \A h \in 1..Len(gpu) : ~gpu[h].live

\* what the code does: after init, two prepares and uninit, the distance map
\* and the vertex buffer of the first prepare are live
C20_Leaked ==
    /\ pathdraw_node.state = "uninitialized"
    /\ \E h \in 1..Len(gpu) : gpu[h].live /\ gpu[h].type = "texture"
    /\ \E h \in 1..Len(gpu) : gpu[h].live /\ gpu[h].type = "buffer"


-----------------------------------------------------------------------------
(* Properties of the timing windows of the text effects *)

\* the windows of all the elements are computed
WindowsDone == Len(window.windows) = window.nb_elems

\* |x - y| < 2^n
F32Near(x, y, n) ==
    LET d == F32Sub[x, y] IN F32IsNum(d) /\ (d.m = 0 \/ d.e + 24 <= n)

\* x = y as floats
F32Same(x, y) == F32IsNum(x) /\ F32IsNum(y) /\ F32IsZero(F32Sub[x, y])

-----------------------------------------------------------------------------
(* Properties of the text backend: resources and the order of the calls *)

\* ngli_text_reset() has just returned
BackendResetDone == call.op = "reset" /\ call.ret = NGL_OK

\* C15: after a reset the instance is zeroed and every texture it created is
\* released: the only texture left is the atlas of the context
C15_ResetReleasesAtlases ==
    BackendResetDone =>
        /\ text_ctx = ZeroText
        /\ DOMAIN textures \subseteq {font_atlas}

\* what the code does after two set_string: the atlas of the first is left
C15_AtlasLeaked ==
    /\ BackendResetDone /\ text_ctx = ZeroText
    /\ font_atlas = NULL /\ DOMAIN textures = {1} /\ next_texture = 3

\* a call on an instance with a font file in a build without the libraries
NoLibsCall(op) ==
    /\ ~have_textlibs
    /\ text_ctx.config.fontfile # NULL
    /\ call.op = op /\ call.ret # "SIGABRT"

C18_InitOnceStep ==
    /\ call'.op = "init" =>
          /\ call'.ret = "SIGABRT" <=> text_ctx.ctx # NULL
          /\ call'.ret # "SIGABRT" => text_ctx'.ctx # NULL
          /\ call'.ret = "SIGABRT" => text_ctx' = text_ctx
    /\ call'.op = "reset" =>
          /\ text_ctx' = ZeroText
          /\ text_ctx.ctx = NULL =>
                (text_ctx' = text_ctx /\ textures' = textures /\ font_atlas' = font_atlas)

C18_InitOnce == [][C18_InitOnceStep]_vars

\* C18 witness: the assertion tripped by an init that follows a failed init
C18_Witness ==
    /\ call.op = "init" /\ call.ret = "SIGABRT"
    /\ text_ctx.ctx # NULL /\ text_ctx.atlas_ref = NULL /\ text_ctx.hb_font = NULL
    /\ text_ctx.config.fontfile = NULL

\* an init with the built-in font returned success
BuiltinInitDone ==
    call.op = "init" /\ call.ret = NGL_OK /\ text_ctx.config.fontfile = NULL

\* the atlas of the context is kept: once created it is never replaced
AtlasKeptStep == font_atlas # NULL => font_atlas' = font_atlas

\* C19: the atlas of the context is created at most once and never released
\* by a reset, and an instance whose init succeeded with the built-in font
\* refers to it, initialized and uploaded
C19_SharedAtlas ==
    /\ [](font_atlas # NULL => font_atlas \in DOMAIN textures)
    /\ [](BuiltinInitDone =>
            /\ text_ctx.atlas_ref = font_atlas /\ font_atlas # NULL
            /\ textures[font_atlas] = "uploaded")
    /\ [][AtlasKeptStep]_vars

\* what the code does after an atlas creation that failed at
\* ngli_texture_init(): the next init succeeds with the texture left behind
C19_HalfMadeAtlas ==
    /\ BuiltinInitDone
    /\ text_ctx.atlas_ref = font_atlas /\ font_atlas # NULL
    /\ textures[font_atlas] = "created"

-----------------------------------------------------------------------------
(* Properties of the Skew node *)

\* skew_update() has just returned
SkewUpdated == skew_node.state = "initialized" /\ skew_node.op = "update"

\* the last call of the update is ngli_node_update(child, t)
ChildUpdatedLast ==
    /\ Len(skew_log) >= 1
    /\ skew_log[Len(skew_log)].node = "child"
    /\ skew_log[Len(skew_log)].t = skew_node.t
    /\ skew_log[Len(skew_log)].matrix = skew_priv.trf.matrix

\* with an animation, the first call of the update is
\* ngli_node_update(anim, t)
AnimUpdatedFirst ==
    skew_priv.anim # NoAnim => (skew_log[1].node = "anim" /\ skew_log[1].t = skew_node.t)

\* the claim as stated: every update ends with the update of the child
C16_ChildAlwaysUpdated == SkewUpdated => (AnimUpdatedFirst /\ ChildUpdatedLast)

\* C16: with an animation, an update evaluates it at t first; when that
\* fails the update returns the error with neither the matrix nor the child
\* updated; otherwise the matrix is recomputed from the vector of the
\* animation, and the child is updated at t with that matrix, once and last
C16_ChildUpdatedUnlessAnimFails ==
    SkewUpdated =>
        /\ AnimUpdatedFirst
        /\ \/ /\ ChildUpdatedLast
              /\ Len(skew_log) = (IF skew_priv.anim # NoAnim THEN 2 ELSE 1)
              /\ skew_priv.anim # NoAnim =>
                    skew_priv.trf.matrix = ngli_mat4_skew(skew_priv.anim.vector, skew_priv.axis)
           \/ /\ skew_priv.anim # NoAnim
              /\ skew_node.ret # NGL_OK
              /\ skew_log = <<[node |-> "anim", t |-> skew_node.t,
                               matrix |-> skew_priv.trf.matrix]>>

\* C16 witness: an update whose animation succeeded and changed the matrix
\* before the child was updated, the child failing
C16_Witness ==
    /\ SkewUpdated /\ skew_priv.anim # NoAnim
    /\ Len(skew_log) = 2 /\ ChildUpdatedLast
    /\ skew_log[1].matrix # skew_log[2].matrix
    /\ skew_node.ret = NGL_ERROR_MEMORY /\ skew_node.t = 2
====
